---- MODULE Spec2Model ----
(***************************************************************************)
(* Model of the bill-wiz pipeline: parse_bill (CFDI extractor),             *)
(* format_bill_data (row formatter / SKU extraction), create_sku_mapping    *)
(* (item index), find_item_by_sku_or_name (live lookup with session         *)
(* cache), build_quickbooks_bill (line reconciler) and create_bill          *)
(* (assembly and submission).                                               *)
(*                                                                          *)
(* Text is a sequence of one-character strings.  Decimal numbers are        *)
(* integers counting ten-thousandths (CFDI amounts carry four decimals).    *)
(***************************************************************************)
EXTENDS Integers, Sequences, FiniteSets, TLC

\* ------------------------------------------------------------------------
\* Characters and Python string primitives
\* ------------------------------------------------------------------------

UpperChars == <<"A","B","C","D","E","F","G","H","I","J","K","L","M",
                "N","O","P","Q","R","S","T","U","V","W","X","Y","Z">>

LowerChars == <<"a","b","c","d","e","f","g","h","i","j","k","l","m",
                "n","o","p","q","r","s","t","u","v","w","x","y","z">>

DigitChars == <<"0","1","2","3","4","5","6","7","8","9">>

Range(f) == {f[i] : i \in DOMAIN f}

\* str.isdigit for one character
IsDigit(c) == c \in Range(DigitChars)

\* str.isalnum for one character
IsAlnum(c) ==
    c \in Range(UpperChars) \cup Range(LowerChars) \cup Range(DigitChars) \cup {"o_acute"}

\* str.isspace for one character: the space and the tab
IsSpace(c) == c \in {" ", "\t"}

\* str.lower for one character
LowerChar(c) ==
    IF c \in Range(UpperChars)
    THEN LowerChars[CHOOSE i \in DOMAIN UpperChars : UpperChars[i] = c]
    ELSE c

\* str.lower
Lower(s) == [i \in 1..Len(s) |-> LowerChar(s[i])]

\* "".join(c for c in s if c.isalnum())
AlnumOnly(s) == SelectSeq(s, IsAlnum)

\* s[i:i+len(sub)] == sub   (1-based i)
MatchAt(s, sub, i) ==
    /\ i >= 1
    /\ i + Len(sub) - 1 <= Len(s)
    /\ SubSeq(s, i, i + Len(sub) - 1) = sub

\* str.find(sub, start): 1-based position of the first occurrence at or
\* after start, 0 when there is none (Python's -1)
Find(s, sub, start) ==
    LET hits == {i \in start..(Len(s) + 1) : MatchAt(s, sub, i)}
    IN  IF hits = {} THEN 0 ELSE CHOOSE i \in hits : \A j \in hits : i <= j

\* sub in s
Contains(s, sub) == Find(s, sub, 1) # 0

\* s.replace(c, "") for a one-character c
RemoveChar(s, c) == SelectSeq(s, LAMBDA x : x # c)

\* str.split(sep) for a non-empty separator
RECURSIVE Split(_, _)
Split(s, sep) ==
    LET p == Find(s, sep, 1)
    IN  IF p = 0 THEN <<s>>
        ELSE <<SubSeq(s, 1, p - 1)>> \o Split(SubSeq(s, p + Len(sep), Len(s)), sep)

\* str.split(sep, 1)
SplitOnce(s, sep) ==
    LET p == Find(s, sep, 1)
    IN  IF p = 0 THEN <<s>>
        ELSE <<SubSeq(s, 1, p - 1), SubSeq(s, p + Len(sep), Len(s))>>

\* str.strip
RECURSIVE LStrip(_)
LStrip(s) == IF s # <<>> /\ IsSpace(Head(s)) THEN LStrip(Tail(s)) ELSE s

RECURSIVE RStrip(_)
RStrip(s) ==
    IF s # <<>> /\ IsSpace(s[Len(s)]) THEN RStrip(SubSeq(s, 1, Len(s) - 1)) ELSE s

Strip(s) == RStrip(LStrip(s))

\* str.split() : whitespace-delimited tokens
RECURSIVE Tokens(_)
Tokens(s) ==
    LET t == LStrip(s)
        ends == {i \in 1..Len(t) : IsSpace(t[i])}
        e == IF ends = {} THEN Len(t) + 1
             ELSE CHOOSE i \in ends : \A j \in ends : i <= j
    IN  IF t = <<>> THEN <<>>
        ELSE <<SubSeq(t, 1, e - 1)>> \o Tokens(SubSeq(t, e, Len(t)))

\* ------------------------------------------------------------------------
\* Numbers: float(x) on the values the pipeline carries
\* ------------------------------------------------------------------------

\* one unit is 1/Scale: "1.0000" is Scale
Scale == 10000

FracDigits == 4

Num(v) == [t |-> "num", v |-> v]

Txt(s) == [t |-> "str", s |-> s]

NoneVal == [t |-> "none"]

DigitVal(c) == (CHOOSE i \in DOMAIN DigitChars : DigitChars[i] = c) - 1

RECURSIVE NatOf(_)
NatOf(ds) ==
    IF ds = <<>> THEN 0
    ELSE NatOf(SubSeq(ds, 1, Len(ds) - 1)) * 10 + DigitVal(ds[Len(ds)])

RECURSIVE PadFrac(_)
PadFrac(ds) ==
    IF Len(ds) >= FracDigits THEN SubSeq(ds, 1, FracDigits)
    ELSE PadFrac(ds \o <<"0">>)

\* float(text): [ok |-> FALSE] stands for ValueError
ParseFloat(s) ==
    LET t    == Strip(s)
        neg  == t # <<>> /\ t[1] = "-"
        u    == IF t # <<>> /\ t[1] \in {"-", "+"} THEN Tail(t) ELSE t
        dot  == Find(u, <<".">>, 1)
        ip   == IF dot = 0 THEN u ELSE SubSeq(u, 1, dot - 1)
        fp   == IF dot = 0 THEN <<>> ELSE SubSeq(u, dot + 1, Len(u))
        good == /\ \A i \in 1..Len(ip) : IsDigit(ip[i])
                /\ \A i \in 1..Len(fp) : IsDigit(fp[i])
                /\ Len(ip) + Len(fp) > 0
        mag  == NatOf(ip) * Scale + NatOf(PadFrac(fp))
    IN  IF good THEN [ok |-> TRUE, v |-> IF neg THEN 0 - mag ELSE mag]
        ELSE [ok |-> FALSE, v |-> 0]

\* float(x) for a number, a text or None (TypeError)
ToFloat(x) ==
    CASE x.t = "num" -> [ok |-> TRUE, v |-> x.v]
      [] x.t = "str" -> ParseFloat(x.s)
      [] OTHER       -> [ok |-> FALSE, v |-> 0]

\* ------------------------------------------------------------------------
\* Dictionaries
\* ------------------------------------------------------------------------

\* d.get(k, default) / attrib.get(k, default) / row.get(k, default)
Get(d, k, default) == IF k \in DOMAIN d THEN d[k] ELSE default

EmptyMap == <<>>

\* m[k] = v
Put(m, k, v) == [x \in (DOMAIN m) \cup {k} |-> IF x = k THEN v ELSE m[x]]

\* m[k1] = v1; m[k2] = v2; ... for a sequence of <<key, value>> pairs
RECURSIVE PutAll(_, _)
PutAll(m, kvs) ==
    IF kvs = <<>> THEN m
    ELSE PutAll(Put(m, Head(kvs)[1], Head(kvs)[2]), Tail(kvs))

\* ------------------------------------------------------------------------
\* Text constants of the code
\* ------------------------------------------------------------------------

SkuMarker == <<"S","K","U",":">>

CodigoMarker == <<"C","o","d","i","g","o",":">>

\* "o_acute" is the one character o with an acute accent
CodigoAccentMarker == <<"C","o_acute","d","i","g","o",":">>

DefaultCantidad == <<"1",".","0","0","0","0">>

DefaultImporte == <<"0",".","0","0","0","0">>

\* ------------------------------------------------------------------------
\* parse_bill (Invoice Extractor)
\* ------------------------------------------------------------------------

\* a fallback that takes the description when there is no identifier
FallbackKeyOrDescription(product_id, full_description) ==
    IF product_id # <<>> THEN product_id ELSE full_description

\* qb_product_service of a description without "SKU:": the product_id
FallbackKey(product_id, full_description) == product_id

\* one iteration of the loop over cfdi:Concepto elements
ParseConcepto(concepto) ==
    LET full_description == Get(concepto, "Descripcion", <<>>)
        product_id     == Get(concepto, "NoIdentificacion", <<>>)
        cantidad       == Get(concepto, "Cantidad", DefaultCantidad)
        valor_unitario == Get(concepto, "ValorUnitario", DefaultImporte)
        importe        == Get(concepto, "Importe", DefaultImporte)
        hasSku   == Contains(full_description, SkuMarker)
        sku_part == IF hasSku THEN Strip(Split(full_description, SkuMarker)[2]) ELSE <<>>
        sku      == IF ~hasSku THEN <<>>
                    ELSE IF Contains(sku_part, <<" ">>) THEN Tokens(sku_part)[1]
                    ELSE sku_part
        parent_sku == IF ~hasSku THEN <<>>
                      ELSE IF Contains(sku, <<"-">>) THEN Split(sku, <<"-">>)[1]
                      ELSE sku
        qb_product_service == IF hasSku THEN parent_sku \o <<":">> \o sku
                              ELSE FallbackKey(product_id, full_description)
    IN  [product          |-> qb_product_service,
         sku              |-> sku,
         parent_sku       |-> parent_sku,
         product_id       |-> product_id,
         description      |-> product_id,
         full_description |-> full_description,
         Cantidad         |-> Txt(cantidad),
         ValorUnitario    |-> Txt(valor_unitario),
         Importe          |-> Txt(importe),
         quantity         |-> Txt(cantidad),
         rate             |-> Txt(valor_unitario),
         amount           |-> Txt(importe)]

\* an extractor that returns the line items in reverse document order
ParseBillReversed(d) ==
    IF ~d.wellformed
    THEN [ok |-> FALSE, invoice_number |-> <<>>, line_items |-> <<>>]
    ELSE [ok |-> TRUE,
          invoice_number |-> Get(d.root, "Folio", <<>>),
          line_items |-> IF d.has_conceptos
                         THEN [i \in 1..Len(d.conceptos) |->
                                  ParseConcepto(d.conceptos[Len(d.conceptos) + 1 - i])]
                         ELSE <<>>]

\* an extractor that raises when cfdi:Conceptos is absent
ParseBillRequiringConceptos(d) ==
    IF ~d.wellformed \/ ~d.has_conceptos
    THEN [ok |-> FALSE, invoice_number |-> <<>>, line_items |-> <<>>]
    ELSE [ok |-> TRUE,
          invoice_number |-> Get(d.root, "Folio", <<>>),
          line_items |-> [i \in 1..Len(d.conceptos) |-> ParseConcepto(d.conceptos[i])]]

\* parse_bill on a document: ok = FALSE stands for the re-raised ParseError
ParseBillOf(d) ==
    IF ~d.wellformed
    THEN [ok |-> FALSE, invoice_number |-> <<>>, line_items |-> <<>>]
    ELSE [ok |-> TRUE,
          invoice_number |-> Get(d.root, "Folio", <<>>),
          line_items |-> IF d.has_conceptos
                         THEN [i \in 1..Len(d.conceptos) |-> ParseConcepto(d.conceptos[i])]
                         ELSE <<>>]

\* extract_sku_components(sku_str): <<parent_sku, full_sku>>
extract_sku_components(sku_str) ==
    IF sku_str = <<>> THEN << <<>>, <<>> >>
    ELSE IF Contains(sku_str, <<"-">>)
    THEN <<SplitOnce(sku_str, <<"-">>)[1], sku_str>>
    ELSE <<sku_str, sku_str>>

\* ------------------------------------------------------------------------
\* format_bill_data
\* ------------------------------------------------------------------------

amount_column_candidates ==
    <<"Importe", "importe", "Amount", "amount", "Total", "total", "Valor", "valor">>

qty_columns == <<"Cantidad", "cantidad", "Quantity", "quantity", "Qty", "qty">>

\* DataFrame column order of the tables the model builds
ColumnOrder ==
    <<"Descripcion", "NoIdentificacion", "product", "sku", "parent_sku",
      "product_id", "description", "full_description", "Cantidad",
      "ValorUnitario", "Importe", "quantity", "rate", "amount">>

\* "amount" in col.lower() or "total" in col.lower() or "precio" in col.lower(),
\* over the column names of ColumnOrder
AmountLikeColumn(col) == col = "amount"

FirstIn(seq, S) ==
    LET hits == {i \in DOMAIN seq : seq[i] \in S}
    IN  IF hits = {} THEN 0 ELSE CHOOSE i \in hits : \A j \in hits : i <= j

\* "".join(c for c in raw if c.isdigit() or c == "." or c == "-")
CleanAmountText(s) == SelectSeq(s, LAMBDA c : IsDigit(c) \/ c = "." \/ c = "-")

\* a guard that takes every parenthesized text shorter than 11 characters
ParenGuardAtMostTen(potential_sku) ==
    \/ \E i \in 1..Len(potential_sku) : IsDigit(potential_sku[i])
    \/ Len(potential_sku) <= 10

\* a guard that wants a digit as well as a short text
ParenGuardDigitAndShort(potential_sku) ==
    /\ \E i \in 1..Len(potential_sku) : IsDigit(potential_sku[i])
    /\ Len(potential_sku) < 10

\* any(c.isdigit() for c in potential_sku) or len(potential_sku) < 10
ParenGuard(potential_sku) ==
    \/ \E i \in 1..Len(potential_sku) : IsDigit(potential_sku[i])
    \/ Len(potential_sku) < 10

\* rules that stop after the product identifier
ExtractSkuIdentifierOnly(row) ==
    [ok |-> TRUE, sku |-> Get(row, "NoIdentificacion", <<>>)]

\* the SKU rules of the row loop; ok = FALSE stands for the IndexError of
\* split()[0] on an empty remainder
ExtractSku(row) ==
    LET description == Get(row, "Descripcion", <<>>)
        noid   == Get(row, "NoIdentificacion", <<>>)
        afterSku == Tokens(Split(description, SkuMarker)[2])
        codPart  == IF Contains(description, CodigoMarker)
                    THEN Split(description, CodigoMarker)[2]
                    ELSE Split(description, CodigoAccentMarker)[2]
        bStart == Find(description, <<"[">>, 1) + 1
        bEnd   == Find(description, <<"]">>, bStart)
        pStart == Find(description, <<"(">>, 1) + 1
        pEnd   == Find(description, <<")">>, pStart)
        potential_sku == Strip(SubSeq(description, pStart, pEnd - 1))
    IN  IF "NoIdentificacion" \in DOMAIN row /\ noid # <<>>
        THEN [ok |-> TRUE, sku |-> noid]
        ELSE IF Contains(description, SkuMarker)
        THEN IF afterSku = <<>> THEN [ok |-> FALSE, sku |-> <<>>]
             ELSE [ok |-> TRUE, sku |-> Strip(afterSku[1])]
        ELSE IF Contains(description, CodigoMarker) \/ Contains(description, CodigoAccentMarker)
        THEN IF Tokens(codPart) = <<>> THEN [ok |-> FALSE, sku |-> <<>>]
             ELSE [ok |-> TRUE, sku |-> Strip(Tokens(codPart)[1])]
        ELSE IF Contains(description, <<"[">>) /\ Contains(description, <<"]">>)
        THEN [ok |-> TRUE,
              sku |-> IF bEnd > bStart
                      THEN Strip(SubSeq(description, bStart, bEnd - 1)) ELSE <<>>]
        ELSE IF Contains(description, <<"(">>) /\ Contains(description, <<")">>)
        THEN [ok |-> TRUE,
              sku |-> IF pEnd > pStart /\ ParenGuard(potential_sku)
                      THEN potential_sku ELSE <<>>]
        ELSE [ok |-> TRUE, sku |-> <<>>]

\* amount of one cell as the conversion block reads it
CellAmount(raw) ==
    IF raw.t = "str"
    THEN IF CleanAmountText(raw.s) = <<>> \/ ~ParseFloat(CleanAmountText(raw.s)).ok
         THEN 0
         ELSE ParseFloat(CleanAmountText(raw.s)).v
    ELSE IF raw.t = "num" THEN raw.v ELSE 0

\* amount read from the amount column, 0.0 when there is none
ColumnAmount(row, k) ==
    IF k = 0 THEN 0 ELSE CellAmount(row[amount_column_candidates[k]])

\* value of one cell in the fallback scan: float(clean_val), 0 when it
\* cannot be converted
FallbackCell(raw) ==
    IF raw.t = "num" THEN raw.v
    ELSE IF raw.t = "str" /\ ParseFloat(CleanAmountText(raw.s)).ok
    THEN ParseFloat(CleanAmountText(raw.s)).v
    ELSE 0

\* first positive number of a sequence, 0 when there is none
FirstPositive(vals) ==
    IF \A i \in DOMAIN vals : vals[i] <= 0 THEN 0
    ELSE vals[CHOOSE i \in DOMAIN vals :
                 vals[i] > 0 /\ \A j \in DOMAIN vals : vals[j] > 0 => i <= j]

\* the amount-like columns of a table, in column order
AmountLikeColumns(columns) ==
    SelectSeq(ColumnOrder, LAMBDA c : c \in columns /\ AmountLikeColumn(c))

FallbackCells(row, cols) == [i \in DOMAIN cols |-> FallbackCell(row[cols[i]])]

\* the fallback scan over amount-like columns: first positive value, else 0
FallbackAmount(row, columns) ==
    FirstPositive(FallbackCells(row, AmountLikeColumns(columns)))

\* the amount after the fallback scan
WithFallback(amount, fallback) ==
    IF amount <= 0 /\ fallback > 0 THEN fallback ELSE amount

\* a non-positive amount passed on as it is
KeepAmount(amount) == amount

\* the placeholder amount 1.0 that replaces a non-positive amount
PlaceholderIfNotPositive(amount) == IF amount <= 0 THEN Scale ELSE amount

\* amount of one row: amount column, fallback scan, placeholder 1.0
RowAmount(row, columns) ==
    PlaceholderIfNotPositive(
        WithFallback(ColumnAmount(row, FirstIn(amount_column_candidates, columns)),
                     FallbackAmount(row, columns)))

\* float(row[col]) when col is a column and the value is positive, else 0
QuantityCell(row, c) ==
    IF c \in DOMAIN row /\ ToFloat(row[c]).ok /\ ToFloat(row[c]).v > 0
    THEN ToFloat(row[c]).v
    ELSE 0

\* 1.0 unless a quantity column gave a positive number
QuantityOrOne(q) == IF q > 0 THEN q ELSE Scale

\* quantity of one row: first quantity column holding a positive number
RowQuantity(row) ==
    QuantityOrOne(FirstPositive([i \in DOMAIN qty_columns |-> QuantityCell(row, qty_columns[i])]))

FormatRow(row, columns) ==
    [product  |-> Get(row, "Descripcion", <<>>),
     sku      |-> ExtractSku(row).sku,
     amount   |-> Num(RowAmount(row, columns)),
     quantity |-> Num(RowQuantity(row))]

\* format_bill_data(invoice_number, bill_df): ok = FALSE when a row raises
FormatBillDataOf(inv, df) ==
    LET columns == IF df = <<>> THEN {} ELSE DOMAIN df[1]
    IN  IF \E i \in 1..Len(df) : ~ExtractSku(df[i]).ok
        THEN [ok |-> FALSE, invoice_number |-> inv, line_items |-> <<>>]
        ELSE [ok |-> TRUE, invoice_number |-> inv,
              line_items |-> [i \in 1..Len(df) |-> FormatRow(df[i], columns)]]

\* ------------------------------------------------------------------------
\* create_sku_mapping (Item Index Builder)
\* ------------------------------------------------------------------------

\* registrations that stop at the parent and the child
EntryKeysWithoutParts(name) ==
    <<Lower(name)>>
    \o (IF Contains(name, <<":">>)
        THEN <<Lower(SplitOnce(name, <<":">>)[1]), Lower(SplitOnce(name, <<":">>)[2])>>
        ELSE <<>>)

\* registrations with every dash-separated part of the child
EntryKeysEverySegment(name) ==
    <<Lower(name)>>
    \o (IF Contains(name, <<":">>)
        THEN <<Lower(SplitOnce(name, <<":">>)[1]), Lower(SplitOnce(name, <<":">>)[2])>>
             \o (IF Contains(SplitOnce(name, <<":">>)[2], <<"-">>)
                 THEN [i \in 1..Len(Split(SplitOnce(name, <<":">>)[2], <<"-">>)) |->
                          Lower(Split(SplitOnce(name, <<":">>)[2], <<"-">>)[i])]
                      \o <<AlnumOnly(Lower(SplitOnce(name, <<":">>)[2]))>>
                 ELSE <<>>)
        ELSE <<>>)
    \o <<AlnumOnly(Lower(name))>>

\* the registrations of one catalog entry, in program order
EntryKeys(name) ==
    LET lname  == Lower(name)
        pc2    == SplitOnce(name, <<":">>)
        parent_sku == pc2[1]
        child_sku  == pc2[2]
        child_parts == Split(child_sku, <<"-">>)
        child_sku_clean == AlnumOnly(Lower(child_sku))
        clean_name == AlnumOnly(lname)
        dashKeys == IF Contains(child_sku, <<"-">>)
                    THEN <<Lower(child_parts[Len(child_parts)]), Lower(child_parts[1])>>
                         \o (IF child_sku_clean # Lower(child_sku)
                             THEN <<child_sku_clean>> ELSE <<>>)
                    ELSE <<>>
        colonKeys == IF Contains(name, <<":">>)
                     THEN <<Lower(parent_sku), Lower(child_sku)>> \o dashKeys
                     ELSE <<>>
    IN  <<lname>> \o colonKeys \o (IF clean_name # lname THEN <<clean_name>> ELSE <<>>)

\* a builder that keeps the first id registered under a key
RECURSIVE create_sku_mapping_keep_first(_, _)
create_sku_mapping_keep_first(mapping, items_list) ==
    IF items_list = <<>> THEN mapping
    ELSE LET keys == EntryKeys(Head(items_list)[1])
             fresh == {keys[i] : i \in 1..Len(keys)} \ DOMAIN mapping
         IN  create_sku_mapping_keep_first(
                 [k \in DOMAIN mapping \cup fresh |->
                     IF k \in DOMAIN mapping THEN mapping[k] ELSE Head(items_list)[2]],
                 Tail(items_list))

RECURSIVE create_sku_mapping_from(_, _)
create_sku_mapping_from(mapping, items_list) ==
    IF items_list = <<>> THEN mapping
    ELSE LET name == Head(items_list)[1]
             item_id == Head(items_list)[2]
             keys == EntryKeys(name)
         IN  create_sku_mapping_from(
                 PutAll(mapping, [i \in 1..Len(keys) |-> <<keys[i], item_id>>]),
                 Tail(items_list))

create_sku_mapping(items_list) == create_sku_mapping_from(EmptyMap, items_list)

\* ------------------------------------------------------------------------
\* The accounting service as seen through run_query
\* ------------------------------------------------------------------------

\* net = "up": status 200 and the matching items; "down": run_query returns
\* None; "raise": run_query raises.  The service compares names without
\* regard to case and leaves "Item" out of an answer with no match.
NetModes == {"up", "down", "raise"}

\* WHERE Name = 'x'
ServerExact(server, x) == SelectSeq(server, LAMBDA e : Lower(e[1]) = Lower(x))

\* WHERE Name LIKE '%x%'
ServerLike(server, x) == SelectSeq(server, LAMBDA e : Contains(Lower(e[1]), Lower(x)))

NoItem == [found |-> FALSE, Name |-> <<>>, Id |-> ""]

ItemOf(e) == [found |-> TRUE, Name |-> e[1], Id |-> e[2]]

\* get_item_by_name with the service up or down: result and queries sent
get_item_by_name(item_name, server, net) ==
    LET clean_name == RemoveChar(RemoveChar(item_name, "'"), "\"")
        exact == ServerExact(server, clean_name)
        like  == ServerLike(server, clean_name)
    IN  IF net = "up" /\ exact # <<>> THEN [result |-> ItemOf(exact[1]), sent |-> 1]
        ELSE IF net = "up" /\ like # <<>> THEN [result |-> ItemOf(like[1]), sent |-> 2]
        ELSE [result |-> NoItem, sent |-> 2]

\* a cache that keeps found items only
RememberHitsOnly(cache, cache_key, result) ==
    IF result.found THEN Put(cache, cache_key, result) ELSE cache

\* a cache that is never written
RememberNothing(cache, cache_key, result) == cache

\* st.session_state.item_cache[cache_key] = result
Remember(cache, cache_key, result) == Put(cache, cache_key, result)

\* find_item_by_sku_or_name(name, sku) against the session cache:
\* returns the result, the cache afterwards and the number of queries sent
find_item_by_sku_or_name(name, sku, cache, server, net) ==
    LET clean_name == RemoveChar(RemoveChar(name, "'"), "\"")
        cache_key  == clean_name \o <<":">> \o sku
        trySku     == sku # <<>> /\ Strip(sku) # <<>>
        like       == ServerLike(server, sku)
        pattern    == {i \in DOMAIN like :
                          \/ Contains(like[i][1], <<":">> \o sku)
                          \/ Contains(like[i][1], <<"-">> \o sku)
                          \/ Contains(like[i][1], sku)}
        skuHit     == trySku /\ net = "up" /\ like # <<>>
        skuItem    == IF pattern # {}
                      THEN ItemOf(like[CHOOSE i \in pattern : \A j \in pattern : i <= j])
                      ELSE ItemOf(like[1])
        skuSent    == IF trySku THEN 1 ELSE 0
        byName     == get_item_by_name(clean_name, server, net)
    IN  IF name = <<>> /\ sku = <<>>
        THEN [result |-> NoItem, cache |-> cache, sent |-> 0]
        ELSE IF cache_key \in DOMAIN cache
        THEN [result |-> cache[cache_key], cache |-> cache, sent |-> 0]
        ELSE IF skuHit
        THEN [result |-> skuItem, cache |-> Remember(cache, cache_key, skuItem), sent |-> 1]
        ELSE IF clean_name # <<>> /\ net # "raise"
        THEN [result |-> byName.result,
              cache  |-> Remember(cache, cache_key, byName.result),
              sent   |-> skuSent + byName.sent]
        ELSE [result |-> NoItem,
              cache  |-> Remember(cache, cache_key, NoItem),
              sent   |-> skuSent + (IF clean_name # <<>> THEN 1 ELSE 0)]

\* ------------------------------------------------------------------------
\* build_quickbooks_bill (Line Reconciler): one iteration of the line loop
\* ------------------------------------------------------------------------

\* the id of "no item" (Python None)
NoId == ""

\* the account argument left at its default (Python None)
NoAccount == "None"

\* match_attempts with the composite parent:sku key tried first
MatchAttemptsCompositeFirst(product_name, sku) ==
    LET lsku   == Lower(sku)
        parts  == Split(sku, <<"-">>)
        parent == Lower(parts[1])
        child  == Lower(parts[2])
        sku_clean == AlnumOnly(lsku)
    IN  (IF sku # <<>> /\ Contains(sku, <<"-">>)
         THEN <<Lower(parent \o <<":">> \o sku)>> ELSE <<>>)
        \o (IF product_name # <<>> THEN <<Lower(product_name)>> ELSE <<>>)
        \o (IF sku = <<>> THEN <<>>
            ELSE <<lsku>>
                 \o (IF Contains(sku, <<"-">>) THEN <<parent, child>> ELSE <<>>)
                 \o (IF sku_clean # lsku THEN <<sku_clean>> ELSE <<>>))

\* match_attempts of one line, in the order the loop tries them
MatchAttempts(product_name, sku) ==
    LET lsku   == Lower(sku)
        parts  == Split(sku, <<"-">>)
        parent == Lower(parts[1])
        child  == Lower(parts[2])
        sku_clean == AlnumOnly(lsku)
    IN  (IF product_name # <<>> THEN <<Lower(product_name)>> ELSE <<>>)
        \o (IF sku = <<>> THEN <<>>
            ELSE <<lsku>>
                 \o (IF Contains(sku, <<"-">>)
                     THEN <<Lower(parent \o <<":">> \o sku), parent, child>>
                     ELSE <<>>)
                 \o (IF sku_clean # lsku THEN <<sku_clean>> ELSE <<>>))

\* position of the first attempt that is non-empty and a key of the index
FirstMatch(attempts, items_map) ==
    LET hits == {i \in DOMAIN attempts :
                    attempts[i] # <<>> /\ attempts[i] \in DOMAIN items_map}
    IN  IF hits = {} THEN 0 ELSE CHOOSE i \in hits : \A j \in hits : i <= j

\* a skip test that lets a zero amount through
SkipAmountNegativeOnly(amount) == amount < 0

\* the test that skips a line
SkipAmount(amount) == amount <= 0

\* one direct query folded into the search so far: it is made only while no
\* id has been found and its argument is not empty
SearchFound(st, r) ==
    [item_id |-> IF r.result.found THEN r.result.Id ELSE st.item_id,
     cache   |-> r.cache,
     sent    |-> st.sent + r.sent]

SearchStep(st, name, sku, server, net) ==
    IF st.item_id = NoId /\ (name # <<>> \/ sku # <<>>)
    THEN SearchFound(st, find_item_by_sku_or_name(name, sku, st.cache, server, net))
    ELSE st

\* the direct queries made when the index gave no id: product name, then
\* SKU, then description
DirectSearch(product_name, sku, description, cache, server, net) ==
    SearchStep(
        SearchStep(
            SearchStep([item_id |-> NoId, cache |-> cache, sent |-> 0],
                       product_name, <<>>, server, net),
            <<>>, sku, server, net),
        description, <<>>, server, net)

\* what one iteration appends to qb_line_items: the loop body ends after
\* the direct search and appends nothing
LineAppended(item, amount, quantity, item_id, use_item_based_expense, default_expense_account_id) ==
    <<>>

\* what one iteration appends to missing_items: nothing either
MissingAppended(item, item_id, use_item_based_expense, default_expense_account_id) ==
    <<>>

\* float(item.get("amount", 0)), 0.0 when it cannot be converted
LineAmount(item) ==
    IF ToFloat(Get(item, "amount", Num(0))).ok
    THEN ToFloat(Get(item, "amount", Num(0))).v
    ELSE 0

\* a quantity that becomes 0.0 when it cannot be converted
LineQuantityZeroOnError(item) ==
    IF ~ToFloat(Get(item, "quantity", Num(Scale))).ok THEN 0
    ELSE IF ToFloat(Get(item, "quantity", Num(Scale))).v > 0
    THEN ToFloat(Get(item, "quantity", Num(Scale))).v
    ELSE Scale

\* float(item.get("quantity", 1)), 1.0 when it cannot be converted or is
\* not positive
LineQuantity(item) ==
    IF ToFloat(Get(item, "quantity", Num(Scale))).ok
       /\ ToFloat(Get(item, "quantity", Num(Scale))).v > 0
    THEN ToFloat(Get(item, "quantity", Num(Scale))).v
    ELSE Scale

\* the attempts of a line and the id the index gives for them
IndexMatch(attempts, k, items_map) ==
    [attempts |-> attempts, matched |-> k,
     item_id |-> IF k = 0 THEN NoId ELSE items_map[attempts[k]]]

IndexLookup(attempts, items_map) ==
    IndexMatch(attempts, FirstMatch(attempts, items_map), items_map)

\* a line skipped for its amount
SkippedOutcome(item, amount, cache) ==
    [skipped |-> TRUE, amount |-> amount, quantity |-> 0,
     product |-> Get(item, "product", <<>>), sku |-> <<>>, attempts |-> <<>>,
     matched |-> 0, item_id |-> NoId, via |-> "none", cache |-> cache, sent |-> 0,
     lines |-> <<>>, missing |-> <<>>]

\* a line that went through the body of the loop
LineOutcome(item, amount, quantity, m, item_id, via, cache, sent, use_item_based_expense, default_expense_account_id) ==
    [skipped |-> FALSE, amount |-> amount, quantity |-> quantity,
     product |-> Get(item, "product", <<>>), sku |-> Get(item, "sku", <<>>),
     attempts |-> m.attempts, matched |-> m.matched, item_id |-> item_id,
     via |-> via, cache |-> cache, sent |-> sent,
     lines |-> LineAppended(item, amount, quantity, item_id, use_item_based_expense,
                            default_expense_account_id),
     missing |-> MissingAppended(item, item_id, use_item_based_expense,
                                 default_expense_account_id)]

\* the line after the direct search
SearchedOutcome(item, amount, quantity, m, ds, default_expense_account_id) ==
    LineOutcome(item, amount, quantity, m, ds.item_id,
                IF ds.item_id # NoId THEN "live" ELSE "none",
                ds.cache, ds.sent, TRUE, default_expense_account_id)

\* the item branch of the loop body: the index first, then the direct search
ItemOutcome(item, amount, quantity, m, cache, server, net, default_expense_account_id) ==
    IF m.item_id # NoId
    THEN LineOutcome(item, amount, quantity, m, m.item_id, "index", cache, 0, TRUE,
                     default_expense_account_id)
    ELSE SearchedOutcome(item, amount, quantity, m,
                         DirectSearch(Get(item, "product", <<>>), Get(item, "sku", <<>>),
                                      Get(item, "description", <<>>), cache, server, net),
                         default_expense_account_id)

NoMatch == [attempts |-> <<>>, matched |-> 0, item_id |-> NoId]

\* one iteration of the loop over bill_data["line_items"]
ReconcileLine(item, items_map, cache, server, net, use_item_based_expense, default_expense_account_id) ==
    IF SkipAmount(LineAmount(item))
    THEN SkippedOutcome(item, LineAmount(item), cache)
    ELSE IF ~use_item_based_expense
    THEN LineOutcome(item, LineAmount(item), LineQuantity(item), NoMatch, NoId, "none",
                     cache, 0, FALSE, default_expense_account_id)
    ELSE ItemOutcome(item, LineAmount(item), LineQuantity(item),
                     IF items_map # EmptyMap
                     THEN IndexLookup(MatchAttempts(Get(item, "product", <<>>),
                                                    Get(item, "sku", <<>>)), items_map)
                     ELSE NoMatch,
                     cache, server, net, default_expense_account_id)

\* the older build_quickbooks_bill of qb/builder.py: one account-based line
\* per item, whatever its amount
builder_build_quickbooks_bill(bill_data, vendor_id, account_id) ==
    [VendorRef |-> vendor_id,
     Line |-> [i \in 1..Len(bill_data.line_items) |->
                 LET a == ToFloat(bill_data.line_items[i].amount)
                 IN  [DetailType |-> "AccountBasedExpenseLineDetail",
                      Amount |-> IF a.ok THEN a.v ELSE 0,
                      Description |-> Get(bill_data.line_items[i], "product", <<>>),
                      AccountRef |-> account_id]]]

\* ------------------------------------------------------------------------
\* Inputs
\* ------------------------------------------------------------------------

\* longest concept sequence of a document
MaxLines == 2

sChairSku == <<"C","h","a","i","r"," ","S","K","U",":"," ","W","O","O","D","-","1">>

sSample == <<"S","a","m","p","l","e">>

sBracket == <<"K"," ","[","X","-","1","]">>

sSkuZZ == <<"S","K","U",":"," ","Z","Z">>

sWoodName == <<"W","O","O","D",":","W","O","O","D","-","1">>

sXName == <<"X",":","X","-","1">>

sX1 == <<"X","-","1">>

Concepto(d, n, c, v, i) ==
    [Descripcion |-> d, NoIdentificacion |-> n, Cantidad |-> c,
     ValorUnitario |-> v, Importe |-> i]

cChair == Concepto(sChairSku, <<>>, <<"1",".","0","0","0","0">>,
                   <<"1","5","0",".","0","0">>, <<"1","5","0",".","0","0">>)

cSample == Concepto(sSample, <<>>, <<"1",".","0","0","0","0">>,
                    <<"0",".","0","0">>, <<"0",".","0","0">>)

cBracket == Concepto(sBracket, <<>>, <<"2">>, <<"2",".","5">>, <<"5">>)

cSkuZZ == Concepto(sSkuZZ, <<>>, <<"0">>, <<"2",".","5">>, <<"2",".","5">>)

cNoId == Concepto(sSample, sX1, <<"x">>, <<"7">>, <<"7">>)

cBad == Concepto(sSample, sX1, <<"1">>, <<"-","3">>, <<"$">>)

SampleConceptos == {cChair, cSample, cBracket, cSkuZZ, cNoId, cBad}

RECURSIVE SeqsUpTo(_, _)
SeqsUpTo(S, n) ==
    IF n = 0 THEN {<<>>}
    ELSE LET shorter == SeqsUpTo(S, n - 1)
         IN  shorter \cup {Append(q, x) : q \in {r \in shorter : Len(r) = n - 1}, x \in S}

sFolio == <<"F","1">>

Documents ==
    {[wellformed |-> TRUE, root |-> [Folio |-> sFolio], has_conceptos |-> TRUE, conceptos |-> cs] :
        cs \in SeqsUpTo(SampleConceptos, MaxLines)}
    \cup {[wellformed |-> TRUE, root |-> [Folio |-> sFolio], has_conceptos |-> FALSE, conceptos |-> <<>>],
          [wellformed |-> FALSE, root |-> <<>>, has_conceptos |-> FALSE, conceptos |-> <<>>]}

CatWood == << <<sWoodName, "id1">> >>

CatFull == << <<sWoodName, "id1">>, <<sXName, "id2">>, <<sX1, "id3">> >>

Catalogs == {CatWood, CatFull}

\* how the caller reaches create_bill: "xml" is main (parse_bill, then
\* format_bill_data); "raw" hands parse_bill's bill_data on; "df" formats a
\* table that carries the CFDI attribute names as columns
Entries == {"xml", "raw", "df"}

VendorId == "vendor1"

AccountId == "acct7"

NoBill == [line_items |-> <<>>, none |-> TRUE]

NoResult == [success |-> FALSE, message |-> "", missing_items |-> <<>>]

\* ------------------------------------------------------------------------
\* qb_auth.py: tokens and API requests
\* ------------------------------------------------------------------------

\* None where a token is expected
NoToken == <<>>

\* the n-th access token and the n-th refresh token issued by the identity
\* provider; number 0 is what the .env file held before the process started
AccessTokenNo(n) == <<"access", n>>

RefreshTokenNo(n) == <<"refresh", n>>

\* an environment value that int() parses to n; Txt(s) is one it rejects
IntText(n) == [t |-> "int", v |-> n]

sSoon == <<"s","o","o","n">>

ExpiryBuffer == 300

x_refresh_token_expires_in == 8726400

\* the three token variables of the .env file, rewritten in place
save_tokens_to_env(env, access_token, refresh_token, token_expiry) ==
    [env EXCEPT !.QB_ACCESS_TOKEN = access_token,
                !.QB_REFRESH_TOKEN = refresh_token,
                !.QB_TOKEN_EXPIRY = token_expiry]

\* the module globals as the import leaves them
Imported(env) ==
    [ACCESS_TOKEN |-> env.QB_ACCESS_TOKEN,
     REFRESH_TOKEN |-> env.QB_REFRESH_TOKEN,
     TOKEN_EXPIRY |-> env.QB_TOKEN_EXPIRY,
     auth_client |-> [access_token |-> NoToken, refresh_token |-> NoToken]]

\* what a token operation hands back: the token, the module globals, the
\* .env file, the number of tokens issued so far, and what was sent
TokenResult(token, m, env, n, events) ==
    [token |-> token, module |-> m, env |-> env, issued |-> n, events |-> events]

RefreshEvent(refresh_token, ok) ==
    [e |-> "refresh", refresh_token |-> refresh_token, ok |-> ok]

\* refresh_access_token(): outcome is the identity provider's answer, "same"
\* (new access token, refresh token kept), "rotated" (both new) or "fail"
refresh_access_token(m, env, n, current_time, outcome) ==
    IF m.REFRESH_TOKEN = NoToken
    THEN TokenResult(NoToken, m, env, n, <<>>)
    ELSE IF outcome = "fail"
    THEN TokenResult(NoToken, m, env, n, <<RefreshEvent(m.REFRESH_TOKEN, FALSE)>>)
    ELSE TokenResult(
            AccessTokenNo(n + 1),
            [m EXCEPT !.auth_client =
                [access_token |-> AccessTokenNo(n + 1),
                 refresh_token |-> IF outcome = "rotated" THEN RefreshTokenNo(n + 1)
                                   ELSE m.REFRESH_TOKEN]],
            save_tokens_to_env(env, AccessTokenNo(n + 1),
                               IF outcome = "rotated" THEN RefreshTokenNo(n + 1)
                               ELSE m.REFRESH_TOKEN,
                               IntText(current_time + x_refresh_token_expires_in)),
            n + 1,
            <<RefreshEvent(m.REFRESH_TOKEN, TRUE)>>)

\* is_token_valid()
is_token_valid(m, current_time) ==
    IF m.ACCESS_TOKEN = NoToken \/ m.TOKEN_EXPIRY = NoneVal THEN FALSE
    ELSE IF m.TOKEN_EXPIRY.t # "int" THEN FALSE
    ELSE current_time < m.TOKEN_EXPIRY.v - ExpiryBuffer

\* get_valid_access_token()
get_valid_access_token(m, env, n, current_time, outcome) ==
    IF is_token_valid(m, current_time)
    THEN TokenResult(m.ACCESS_TOKEN, m, env, n, <<>>)
    ELSE refresh_access_token(m, env, n, current_time, outcome)

\* responses of the API: a status code, or a transport error raised by
\* requests
StatusCodes == {200, 401, 500}

Responses ==
    {[raises |-> FALSE, status_code |-> s] : s \in StatusCodes}
    \cup {[raises |-> TRUE, status_code |-> 0]}

Methods == {"GET", "POST", "PUT"}

RequestEvent(method, token, response) ==
    [e |-> "request", method |-> method, Authorization |-> token, response |-> response]

ReturnsNone == [none |-> TRUE, status_code |-> 0]

Returns(response) == [none |-> FALSE, status_code |-> response.status_code]

\* an answer that counts as an error only from 500 on
IsServerError(response) == response.status_code >= 500

\* response.status_code >= 400
IsError(response) == response.status_code >= 400

\* what make_api_request hands back
ApiResult(returned, t, events) ==
    [returned |-> returned, module |-> t.module, env |-> t.env, issued |-> t.issued,
     events |-> events]

\* the end of make_api_request, from the last response on
Answer(response, t, events) ==
    ApiResult(IF response.raises \/ IsError(response) THEN ReturnsNone
              ELSE Returns(response), t, events)

\* the 401 branch of make_api_request: rf is the result of the refresh, r2
\* the response to the retry
Retried(method, r1, rf, r2, events) ==
    IF rf.token # NoToken
    THEN Answer(r2, rf, events \o rf.events \o <<RequestEvent(method, rf.token, r2)>>)
    ELSE Answer(r1, rf, events \o rf.events)

\* make_api_request from the first request on: t is the result of
\* get_valid_access_token, r1 the first response
Requested(method, t, current_time, r1, o2, r2) ==
    IF t.token = NoToken \/ method \notin {"GET", "POST"}
    THEN ApiResult(ReturnsNone, t, t.events)
    ELSE IF ~r1.raises /\ r1.status_code = 401
    THEN Retried(method, r1,
                 refresh_access_token(t.module, t.env, t.issued, current_time, o2),
                 r2, t.events \o <<RequestEvent(method, t.token, r1)>>)
    ELSE Answer(r1, t, t.events \o <<RequestEvent(method, t.token, r1)>>)

\* make_api_request(endpoint, method, data): o1 and o2 are the identity
\* provider's answers to the refreshes, r1 and r2 the API's responses
make_api_request(method, m, env, n, current_time, o1, r1, o2, r2) ==
    Requested(method, get_valid_access_token(m, env, n, current_time, o1),
              current_time, r1, o2, r2)

\* ------------------------------------------------------------------------
\* State
\* ------------------------------------------------------------------------

VARIABLES
    pc,             \* position of the caller in the pipeline
    entry,          \* which entry the caller uses
    doc,            \* the uploaded document
    server,         \* the item catalog held by the accounting service
    use_item_based_expense,
    default_expense_account_id,
    invoice_number, \* result of parse_bill
    bill_df,        \* result of parse_bill: the table of line items
    bill_data,      \* the argument of create_bill
    items_map,      \* build_quickbooks_bill: the item index
    catalog_fetches,\* calls of get_all_items
    idx,            \* build_quickbooks_bill: the loop index (1-based)
    qb_line_items,  \* build_quickbooks_bill: the output lines
    missing_items,  \* build_quickbooks_bill: the unmatched list
    item_cache,     \* st.session_state.item_cache
    log,            \* what the loop reported for each line it has seen
    queries,        \* queries sent by the direct search
    qb_bill,        \* the assembled bill
    posts,          \* POSTs to the bill endpoint, each with the bill sent
    result,         \* what create_bill returned
    qb_auth,        \* the globals of module qb_auth
    env_file,       \* the token variables of the .env file
    issued,         \* tokens issued by the identity provider so far
    now             \* time.time()

vars == <<pc, entry, doc, server, use_item_based_expense, default_expense_account_id,
          invoice_number, bill_df, bill_data, items_map, catalog_fetches, idx,
          qb_line_items, missing_items, item_cache, log, queries, qb_bill, posts, result,
          qb_auth, env_file, issued, now>>

authVars == <<qb_auth, env_file, issued, now>>

inputs == <<entry, doc, server, use_item_based_expense, default_expense_account_id>>

buildVars == <<items_map, catalog_fetches, idx, qb_line_items, missing_items,
               item_cache, log, queries, qb_bill>>

\* the tokens a session of the pipeline starts with
EnvAtStart ==
    [QB_ACCESS_TOKEN |-> AccessTokenNo(0), QB_REFRESH_TOKEN |-> RefreshTokenNo(0),
     QB_TOKEN_EXPIRY |-> IntText(x_refresh_token_expires_in)]

\* the module has been imported and no token operation has run
AuthIdle ==
    /\ env_file = EnvAtStart
    /\ qb_auth = Imported(env_file)
    /\ issued = 0
    /\ now = 0

Init ==
    /\ pc = "start"
    /\ entry \in Entries
    /\ doc \in Documents
    /\ server \in Catalogs
    /\ use_item_based_expense \in BOOLEAN
    /\ default_expense_account_id \in {NoAccount, AccountId}
    /\ invoice_number = <<>>
    /\ bill_df = <<>>
    /\ bill_data = NoBill
    /\ AuthIdle
    /\ items_map = EmptyMap
    /\ catalog_fetches = 0
    /\ idx = 1
    /\ qb_line_items = <<>>
    /\ missing_items = <<>>
    /\ item_cache = EmptyMap
    /\ log = <<>>
    /\ queries = 0
    /\ qb_bill = [VendorRef |-> VendorId, Line |-> <<>>]
    /\ posts = <<>>
    /\ result = NoResult

\* ------------------------------------------------------------------------
\* Operations
\* ------------------------------------------------------------------------

\* a table row carrying the CFDI attributes of one concept as columns
TableRow(c) ==
    [Descripcion |-> c.Descripcion, NoIdentificacion |-> c.NoIdentificacion,
     Cantidad |-> Txt(c.Cantidad), ValorUnitario |-> Txt(c.ValorUnitario),
     Importe |-> Txt(c.Importe)]

\* a caller that goes on after a parse error
ParsedDespiteError(r) ==
    /\ pc' = "parsed"
    /\ invoice_number' = r.invoice_number
    /\ bill_df' = r.line_items

\* what main keeps of a parse_bill result
Parsed(r) ==
    /\ pc' = IF r.ok THEN "parsed" ELSE "failed"
    /\ invoice_number' = r.invoice_number
    /\ bill_df' = r.line_items

\* main: parse_bill(upload_file); a ParseError is caught by main and
\* leaves bill_data unset
ParseBill ==
    /\ pc = "start"
    /\ entry \in {"xml", "raw"}
    /\ Parsed(ParseBillOf(doc))
    /\ UNCHANGED <<inputs, authVars, bill_data, buildVars, posts, result>>

\* what main keeps of a format_bill_data result; an exception is caught by
\* main and leaves bill_data unset
Formatted(r, df) ==
    /\ pc' = IF r.ok THEN "ready" ELSE "failed"
    /\ bill_data' = IF r.ok
                    THEN [invoice_number |-> r.invoice_number, line_items |-> r.line_items]
                    ELSE bill_data
    /\ bill_df' = df
    /\ invoice_number' = r.invoice_number

FormatTable(inv, df) == Formatted(FormatBillDataOf(inv, df), df)

\* format_bill_data(invoice_number, bill_df)
FormatBillData ==
    /\ \/ /\ pc = "parsed"
          /\ entry = "xml"
          /\ FormatTable(invoice_number, bill_df)
       \/ /\ pc = "start"
          /\ entry = "df"
          /\ doc.wellformed
          /\ FormatTable(Get(doc.root, "Folio", <<>>),
                         [i \in 1..Len(doc.conceptos) |-> TableRow(doc.conceptos[i])])
    /\ UNCHANGED <<inputs, authVars, buildVars, posts, result>>

\* the caller hands the bill_data returned by parse_bill to create_bill
PassRawBillData ==
    /\ pc = "parsed"
    /\ entry = "raw"
    /\ bill_data' = [line_items |-> bill_df]
    /\ pc' = "ready"
    /\ UNCHANGED <<inputs, authVars, invoice_number, bill_df, buildVars, posts, result>>

IsValidItem(item) ==
    LET a == ToFloat(Get(item, "amount", Num(0))) IN a.ok /\ a.v > 0

Placeholder ==
    [product |-> <<"D","E","B","U","G">>, amount |-> Num(Scale),
     quantity |-> Num(Scale), sku |-> <<"D","E","B","U","G">>]

\* get_all_items and create_sku_mapping at the head of build_quickbooks_bill
FetchedMap(outcome) ==
    LET all_items == IF outcome = "ok" THEN server ELSE <<>>
        m == create_sku_mapping(all_items)
    IN  IF outcome = "raise" \/ all_items = <<>> THEN EmptyMap
        ELSE IF m = EmptyMap
        THEN PutAll(EmptyMap, [i \in 1..Len(all_items) |->
                                  <<Lower(all_items[i][1]), all_items[i][2]>>])
        ELSE m

\* create_bill returns a failure before building anything
Refuse(message) ==
    /\ result' = [success |-> FALSE, message |-> message, missing_items |-> <<>>]
    /\ pc' = "refused"
    /\ UNCHANGED <<bill_data, items_map, catalog_fetches>>

\* the head of build_quickbooks_bill: the catalog is fetched in item mode
StartBuild(line_items) ==
    /\ bill_data' = [bill_data EXCEPT !.line_items = line_items]
    /\ IF use_item_based_expense
       THEN \E outcome \in {"ok", "empty", "raise"} :
              /\ items_map' = FetchedMap(outcome)
              /\ catalog_fetches' = catalog_fetches + 1
       ELSE UNCHANGED <<items_map, catalog_fetches>>
    /\ pc' = "loop"
    /\ UNCHANGED result

\* the checks of create_bill: line items present, some positive amount (or
\* the debugging placeholder when the caller ticks its box)
CheckItems(items, valid_items) ==
    \/ /\ items = <<>>
       /\ Refuse("No line items found in bill data")
    \/ /\ items # <<>>
       /\ valid_items = <<>>
       /\ Refuse("No valid line items with positive amounts")
    \/ /\ items # <<>>
       /\ StartBuild(IF valid_items = <<>> THEN <<Placeholder>> ELSE items)

\* create_bill up to the line loop of build_quickbooks_bill: inspection,
\* the positive-amount check with its placeholder, the catalog fetch
CreateBillBegin ==
    /\ pc = "ready"
    /\ CheckItems(bill_data.line_items, SelectSeq(bill_data.line_items, IsValidItem))
    /\ UNCHANGED <<inputs, authVars, invoice_number, bill_df, idx, qb_line_items, missing_items,
                   item_cache, log, queries, qb_bill, posts>>

\* the effect of one iteration on the state of the loop
LineDone(r) ==
    /\ qb_line_items' = qb_line_items \o r.lines
    /\ missing_items' = missing_items \o r.missing
    /\ item_cache' = r.cache
    /\ queries' = queries + r.sent
    /\ log' = Append(log, [skipped |-> r.skipped, amount |-> r.amount,
                           quantity |-> r.quantity, product |-> r.product,
                           sku |-> r.sku, attempts |-> r.attempts,
                           matched |-> r.matched, item_id |-> r.item_id,
                           via |-> r.via])

\* one iteration of the loop of build_quickbooks_bill
ProcessLine ==
    /\ pc = "loop"
    /\ idx <= Len(bill_data.line_items)
    /\ \E net \in NetModes :
         LineDone(ReconcileLine(bill_data.line_items[idx], items_map, item_cache, server,
                                net, use_item_based_expense, default_expense_account_id))
    /\ idx' = idx + 1
    /\ UNCHANGED <<pc, inputs, authVars, invoice_number, bill_df, bill_data, items_map,
                   catalog_fetches, qb_bill, posts, result>>

\* a create_bill that lost its empty-bill test
NoLinesUnchecked(bill) == FALSE

\* the test of create_bill that refuses an empty bill
NoLines(bill) == bill.Line = <<>>

\* the bill build_quickbooks_bill returns
Assemble(inv, lines) ==
    IF inv # <<>>
    THEN [VendorRef |-> VendorId, Line |-> lines, DocNumber |-> inv]
    ELSE [VendorRef |-> VendorId, Line |-> lines]

\* create_bill after the build: an empty bill is refused, any other is
\* POSTed to the bill endpoint
Submit(bill) ==
    /\ qb_bill' = bill
    /\ IF NoLines(bill)
       THEN /\ result' = [success |-> FALSE,
                          message |-> "No valid line items found in bill data",
                          missing_items |-> missing_items]
            /\ posts' = posts
       ELSE /\ posts' = Append(posts, bill)
            /\ \E status \in {"created", "error"} :
                 result' = [success |-> status = "created",
                            message |-> IF status = "created" THEN "Bill"
                                        ELSE "Failed to create bill in QuickBooks",
                            missing_items |-> missing_items]

\* the end of build_quickbooks_bill and the rest of create_bill
CreateBillEnd ==
    /\ pc = "loop"
    /\ idx > Len(bill_data.line_items)
    /\ Submit(Assemble(Get(bill_data, "invoice_number", <<>>), qb_line_items))
    /\ pc' = "done"
    /\ UNCHANGED <<inputs, authVars, invoice_number, bill_df, bill_data, items_map, catalog_fetches,
                   idx, qb_line_items, missing_items, item_cache, log, queries>>

Next ==
    \/ ParseBill
    \/ FormatBillData
    \/ PassRawBillData
    \/ CreateBillBegin
    \/ ProcessLine
    \/ CreateBillEnd

Spec == Init /\ [][Next]_vars

\* ------------------------------------------------------------------------
\* The extractor and the SKU rules on their own
\* ------------------------------------------------------------------------

\* longest concept collection of the documents drawn below
MaxConceptos == 2

sItemBracket == <<"I","t","e","m"," ","[","X","Y","Z","9","]">>

sCheapGadget == <<"C","h","e","a","p"," ","g","a","d","g","e","t"," ","(","a",")">>

sWidgetSku == <<"W","i","d","g","e","t"," ","S","K","U",":"," ","A","B","C","-","1","2","3">>

sAllRules == <<"S","K","U",":"," ","A"," ","C","o","d","i","g","o",":"," ","K"," ","[","B","]"," ","(","C","1",")">>

sCodigoBracket == <<"C","o","d","i","g","o",":"," ","K","7"," ","[","B","]">>

sCodigoAccent == <<"C","o_acute","d","i","g","o",":"," ","K","7">>

sBracketParen == <<"[","B","]"," ","(","C","1",")">>

sParenTen == <<"(","a","b","c","d","e","f","g","h","i","j",")">>

sParenNine == <<"(","a","b","c","d","e","f","g","h","i",")">>

sParenDigit == <<"(","a","b","c","d","e","f","g","h","i","j","1",")">>

sParenPadded == <<"("," ","a","b","c","d","e","f","g","h"," ",")">>

sBracketReversed == <<"]"," ","["," ","(","C","1",")">>

sSkuNothing == <<"x"," ","S","K","U",":">>

sSkuTab == <<"S","K","U",":"," ","A","\t","B">>

sN1 == <<"N","1">>

\* a concept with the quantity and amounts of an ordinary line
RuleConcepto(d, n) == Concepto(d, n, <<"1">>, <<"5">>, <<"5">>)

\* a concept element that carries a description and no other attribute
cBare == [Descripcion |-> sSample]

RuleDescriptions ==
    {sItemBracket, sCheapGadget, sWidgetSku, sAllRules, sCodigoBracket, sCodigoAccent,
     sBracketParen, sParenTen, sParenNine, sParenDigit, sParenPadded, sBracketReversed,
     sSkuNothing, sSkuTab, sSample}

RuleConceptos ==
    {RuleConcepto(d, <<>>) : d \in RuleDescriptions}
    \cup {RuleConcepto(sAllRules, sN1), RuleConcepto(sSample, sN1)}

\* documents with and without a Folio, with and without cfdi:Conceptos
RuleDocuments(conceptos) ==
    {[wellformed |-> TRUE, root |-> r, has_conceptos |-> TRUE, conceptos |-> cs] :
        r \in {[Folio |-> sFolio], <<>>}, cs \in SeqsUpTo(conceptos, MaxConceptos)}
    \cup {[wellformed |-> TRUE, root |-> r, has_conceptos |-> FALSE, conceptos |-> <<>>] :
        r \in {[Folio |-> sFolio], <<>>}}
    \cup {[wellformed |-> FALSE, root |-> <<>>, has_conceptos |-> FALSE, conceptos |-> <<>>]}

\* nothing of create_bill has run
BuildIdle ==
    /\ items_map = EmptyMap
    /\ catalog_fetches = 0
    /\ idx = 1
    /\ qb_line_items = <<>>
    /\ missing_items = <<>>
    /\ item_cache = EmptyMap
    /\ log = <<>>
    /\ queries = 0
    /\ qb_bill = [VendorRef |-> VendorId, Line |-> <<>>]
    /\ posts = <<>>
    /\ result = NoResult

\* the caller of parse_bill and format_bill_data before either has run; a
\* table handed to format_bill_data directly has every CFDI column
InitExtract ==
    /\ pc = "start"
    /\ entry \in Entries
    /\ doc \in IF entry = "df" THEN RuleDocuments(RuleConceptos)
               ELSE RuleDocuments(RuleConceptos \cup {cBare})
    /\ server = CatWood
    /\ use_item_based_expense = TRUE
    /\ default_expense_account_id = NoAccount
    /\ invoice_number = <<>>
    /\ bill_df = <<>>
    /\ bill_data = NoBill
    /\ AuthIdle
    /\ BuildIdle

NextExtract ==
    \/ ParseBill
    \/ FormatBillData

SpecExtract == InitExtract /\ [][NextExtract]_vars

\* ------------------------------------------------------------------------
\* The index builder on its own
\* ------------------------------------------------------------------------

\* longest catalog drawn below
MaxCatalog == 2

s24Name == <<"2","4","f","a","u","x","b","o","i","s",":","2","4","f","a","u","x","b","o","i","s","-","s","h","a","r","b","o","r">>

s24Parent == <<"2","4","f","a","u","x","b","o","i","s">>

s24Child == <<"2","4","f","a","u","x","b","o","i","s","-","s","h","a","r","b","o","r">>

sSharbor == <<"s","h","a","r","b","o","r">>

sThreeName == <<"P",":","a","-","B","-","c">>

sChildOnlyName == <<"P",":","c">>

sPlainName == <<"L","a","m","p">>

IndexNames == {s24Name, sThreeName, sChildOnlyName, sPlainName, sWoodName, sXName, sX1}

\* catalogs as get_all_items returns them: (name, id) pairs in catalog order
IndexCatalogs == SeqsUpTo({<<n, i>> : n \in IndexNames, i \in {"id1", "id2"}}, MaxCatalog)

\* a catalog has been fetched and no index built from it yet
InitIndex ==
    /\ pc = "catalog"
    /\ entry = "xml"
    /\ doc = [wellformed |-> TRUE, root |-> <<>>, has_conceptos |-> FALSE, conceptos |-> <<>>]
    /\ server \in IndexCatalogs
    /\ use_item_based_expense = TRUE
    /\ default_expense_account_id = NoAccount
    /\ invoice_number = <<>>
    /\ bill_df = <<>>
    /\ bill_data = NoBill
    /\ AuthIdle
    /\ BuildIdle

\* items_map = create_sku_mapping(all_items)
BuildIndex ==
    /\ pc = "catalog"
    /\ items_map' = create_sku_mapping(server)
    /\ pc' = "indexed"
    /\ UNCHANGED <<inputs, authVars, invoice_number, bill_df, bill_data, catalog_fetches, idx,
                   qb_line_items, missing_items, item_cache, log, queries, qb_bill,
                   posts, result>>

NextIndex == BuildIndex

SpecIndex == InitIndex /\ [][NextIndex]_vars

\* ------------------------------------------------------------------------
\* create_bill called twice in one session
\* ------------------------------------------------------------------------

\* the caller of parse_bill who hands its bill_data to create_bill
InitReconcile ==
    /\ pc = "start"
    /\ entry = "raw"
    /\ doc \in Documents
    /\ server \in Catalogs
    /\ use_item_based_expense \in BOOLEAN
    /\ default_expense_account_id \in {NoAccount, AccountId}
    /\ invoice_number = <<>>
    /\ bill_df = <<>>
    /\ bill_data = NoBill
    /\ AuthIdle
    /\ BuildIdle

\* the button is pressed again after create_bill has returned: the loop of
\* build_quickbooks_bill starts anew with fresh locals, on the same
\* bill_data, with the catalog served from st.cache_data and the session's
\* item_cache as the first call left it; log keeps the reports of the
\* first call, qb_bill and result its outcome until the second call ends
CreateBillAgain ==
    /\ pc = "done"
    /\ Len(log) = Len(bill_data.line_items)
    /\ pc' = "loop"
    /\ idx' = 1
    /\ qb_line_items' = <<>>
    /\ missing_items' = <<>>
    /\ UNCHANGED <<inputs, authVars, invoice_number, bill_df, bill_data, items_map, catalog_fetches,
                   item_cache, log, queries, qb_bill, posts, result>>

NextReconcile ==
    \/ ParseBill
    \/ PassRawBillData
    \/ CreateBillBegin
    \/ ProcessLine
    \/ CreateBillEnd
    \/ CreateBillAgain

SpecReconcile == InitReconcile /\ [][NextReconcile]_vars

\* ------------------------------------------------------------------------
\* find_item_by_sku_or_name called repeatedly in one session
\* ------------------------------------------------------------------------

\* most calls in one session
MaxCalls == 2

sZX1 == <<"Z","X","-","1">>

sX == <<"X">>

sK == <<"K">>

sX1K == <<"X","-","1",":","K">>

\* a catalog in which a name that merely contains "X-1" comes before a
\* name that holds it after a colon
CatRawFirst == << <<sZX1, "id1">>, <<sXName, "id2">> >>

LookupCatalogs == {CatFull, CatRawFirst}

LookupNames == {<<>>, sXName, sX}

LookupSkus == {<<>>, sX1, sK, sX1K}

\* a session with an empty item_cache
InitLookup ==
    /\ pc = "lookup"
    /\ entry = "raw"
    /\ doc = [wellformed |-> TRUE, root |-> <<>>, has_conceptos |-> FALSE, conceptos |-> <<>>]
    /\ server \in LookupCatalogs
    /\ use_item_based_expense = TRUE
    /\ default_expense_account_id = NoAccount
    /\ invoice_number = <<>>
    /\ bill_df = <<>>
    /\ bill_data = NoBill
    /\ AuthIdle
    /\ BuildIdle

\* the effect of one call on the session, and the report of the call:
\* cached tells that the call was answered from item_cache
Looked(name, sku, net, r) ==
    /\ item_cache' = r.cache
    /\ queries' = queries + r.sent
    /\ log' = Append(log, [name |-> name, sku |-> sku, net |-> net,
                           result |-> r.result, sent |-> r.sent,
                           cached |-> (name # <<>> \/ sku # <<>>) /\ r.cache = item_cache])

\* qb_item = find_item_by_sku_or_name(name, sku)
Lookup ==
    /\ pc = "lookup"
    /\ Len(log) < MaxCalls
    /\ \E name \in LookupNames, sku \in LookupSkus, net \in NetModes :
          Looked(name, sku, net, find_item_by_sku_or_name(name, sku, item_cache, server, net))
    /\ UNCHANGED <<pc, inputs, authVars, invoice_number, bill_df, bill_data, items_map,
                   catalog_fetches, idx, qb_line_items, missing_items, qb_bill,
                   posts, result>>

NextLookup == Lookup

SpecLookup == InitLookup /\ [][NextLookup]_vars

\* ------------------------------------------------------------------------
\* The token operations and make_api_request in one process
\* ------------------------------------------------------------------------

MaxIssued == 3

\* the clock readings of a run, in seconds; all of them lie within the
\* lifetime of every token issued during the run
Times == {0, 600}

RefreshOutcomes == {"same", "rotated", "fail"}

\* the .env files a process may start from
StartEnvs ==
    {[QB_ACCESS_TOKEN |-> a, QB_REFRESH_TOKEN |-> r, QB_TOKEN_EXPIRY |-> x] :
        a \in {NoToken, AccessTokenNo(0)},
        r \in {NoToken, RefreshTokenNo(0)},
        x \in {NoneVal, Txt(sSoon), IntText(600)}}

\* a process that has just imported qb_auth
InitAuth ==
    /\ pc = "auth"
    /\ entry = "raw"
    /\ doc = [wellformed |-> TRUE, root |-> <<>>, has_conceptos |-> FALSE, conceptos |-> <<>>]
    /\ server = CatWood
    /\ use_item_based_expense = TRUE
    /\ default_expense_account_id = NoAccount
    /\ invoice_number = <<>>
    /\ bill_df = <<>>
    /\ bill_data = NoBill
    /\ BuildIdle
    /\ env_file \in StartEnvs
    /\ qb_auth = Imported(env_file)
    /\ issued = 0
    /\ now = 0

\* the effect of one call on the module and the .env file; log holds the
\* report of the latest call, with auth_client as the call found it
Called(op, method, r, token, returned) ==
    /\ qb_auth' = r.module
    /\ env_file' = r.env
    /\ issued' = r.issued
    /\ log' = <<[op |-> op, method |-> method, at |-> now,
                 events |-> r.events, token |-> token, returned |-> returned,
                 before |-> qb_auth.auth_client]>>

TokenCalled(r) == Called("get_valid_access_token", "", r, r.token, ReturnsNone)

ApiCalled(method, r) == Called("make_api_request", method, r, NoToken, r.returned)

\* token = get_valid_access_token()
GetValidAccessToken ==
    /\ pc = "auth"
    /\ issued < MaxIssued
    /\ \E o \in RefreshOutcomes :
          TokenCalled(get_valid_access_token(qb_auth, env_file, issued, now, o))
    /\ UNCHANGED <<pc, inputs, invoice_number, bill_df, bill_data, items_map,
                   catalog_fetches, idx, qb_line_items, missing_items, item_cache,
                   queries, qb_bill, posts, result, now>>

\* response = make_api_request(endpoint, method, data)
MakeApiRequest ==
    /\ pc = "auth"
    /\ issued < MaxIssued
    /\ \E method \in Methods, o1, o2 \in RefreshOutcomes, r1, r2 \in Responses :
          ApiCalled(method, make_api_request(method, qb_auth, env_file, issued, now,
                                             o1, r1, o2, r2))
    /\ UNCHANGED <<pc, inputs, invoice_number, bill_df, bill_data, items_map,
                   catalog_fetches, idx, qb_line_items, missing_items, item_cache,
                   queries, qb_bill, posts, result, now>>

\* time passes
Tick ==
    /\ pc = "auth"
    /\ \E t \in Times : t > now /\ now' = t
    /\ UNCHANGED <<pc, inputs, invoice_number, bill_df, bill_data, buildVars, posts,
                   result, qb_auth, env_file, issued>>

NextAuth ==
    \/ GetValidAccessToken
    \/ MakeApiRequest
    \/ Tick

SpecAuth == InitAuth /\ [][NextAuth]_vars

\* ------------------------------------------------------------------------
\* Properties
\* ------------------------------------------------------------------------

ItemDetail == "ItemBasedExpenseLineDetail"

AccountDetail == "AccountBasedExpenseLineDetail"

sItemNotFound == <<"(","i","t","e","m"," ","n","o","t"," ","f","o","u","n","d",")">>

\* the loop has run over every line and create_bill has returned
Returned == pc = "done"

InputLines == bill_data.line_items

\* lines of the log by outcome
SkippedLines == {i \in DOMAIN log : log[i].skipped}

HitLines == {i \in DOMAIN log : ~log[i].skipped /\ log[i].item_id # NoId}

MissLines ==
    {i \in DOMAIN log : use_item_based_expense /\ ~log[i].skipped /\ log[i].item_id = NoId}

ItemLinesFor(id, amount, quantity) ==
    {k \in DOMAIN qb_line_items :
        /\ Get(qb_line_items[k], "DetailType", "") = ItemDetail
        /\ Get(qb_line_items[k], "ItemRef", "") = id
        /\ Get(qb_line_items[k], "Amount", 0) = amount
        /\ Get(qb_line_items[k], "Qty", 0) = quantity
        /\ Get(qb_line_items[k], "UnitPrice", 0) * quantity = amount * Scale}

AccountLinesFor(account, amount) ==
    {k \in DOMAIN qb_line_items :
        /\ Get(qb_line_items[k], "DetailType", "") = AccountDetail
        /\ Get(qb_line_items[k], "AccountRef", "") = account
        /\ Get(qb_line_items[k], "Amount", 0) = amount}

FallbackLinesFor(account, amount) ==
    {k \in AccountLinesFor(account, amount) :
        Contains(Get(qb_line_items[k], "Description", <<>>), sItemNotFound)}

\* C1: the two-line document (150.00 "Chair SKU: WOOD-1", 0.00 "Sample")
\* with WOOD:WOOD-1 in the fetched catalog, reconciled in item mode, ends
\* as a bill of exactly one item-based line of 150.00 on that catalog id,
\* with nothing unmatched.
C1_EndToEndOneItemLine ==
    ( /\ Returned
      /\ entry \in {"xml", "raw"}
      /\ doc.conceptos = <<cChair, cSample>>
      /\ use_item_based_expense
      /\ items_map # EmptyMap )
    => /\ Len(qb_bill.Line) = 1
       /\ Get(qb_bill.Line[1], "DetailType", "") = ItemDetail
       /\ Get(qb_bill.Line[1], "Amount", 0) = 150 * Scale
       /\ Get(qb_bill.Line[1], "ItemRef", "") = "id1"
       /\ result.missing_items = <<>>

\* C2: every line the loop has seen is accounted for exactly once: output
\* lines + lines dropped for lack of a default account + lines skipped for
\* a non-positive amount = lines seen.
C2_EveryLineAccounted ==
    LET dropped == {i \in MissLines : default_expense_account_id = NoAccount}
    IN  Len(qb_line_items) + Cardinality(dropped) + Cardinality(SkippedLines) = Len(log)

\* C3: in item mode a positive line that matched nothing, with a default
\* account given, has an account-based "(item not found)" line on that
\* account in the output and its product name in the returned unmatched
\* list.
C3_MissFallsBackToDefaultAccount ==
    (Returned /\ default_expense_account_id # NoAccount)
    => \A i \in MissLines :
          /\ FallbackLinesFor(default_expense_account_id, log[i].amount) # {}
          /\ log[i].product \in Range(result.missing_items)

\* C4: in item mode a positive line that matched nothing, with no default
\* account, has no output line but its product name is in the returned
\* unmatched list.
C4_DroppedLineStillReported ==
    (Returned /\ default_expense_account_id = NoAccount)
    => \A i \in MissLines :
          /\ \A k \in DOMAIN qb_line_items :
                Get(qb_line_items[k], "Description", <<>>) # log[i].product
          /\ log[i].product \in Range(result.missing_items)

\* C5: in item mode every positive line that got an item id has an
\* item-based output line with that id, the line's amount, its quantity
\* (1 when not positive) and unit price amount / quantity, and there are
\* as many item-based lines as such lines.
C5_HitEmitsItemLine ==
    (Returned /\ use_item_based_expense)
    => /\ \A i \in HitLines :
             ItemLinesFor(log[i].item_id, log[i].amount, log[i].quantity) # {}
       /\ Cardinality({k \in DOMAIN qb_line_items :
                          Get(qb_line_items[k], "DetailType", "") = ItemDetail})
            = Cardinality(HitLines)

\* candidates of a line in the order (a) composite parent:full, (b) product
\* field, (c) full sku, (d) dash parent, (e) dash child, (f) stripped
ClaimedOrder(product_name, sku) ==
    LET dash == Contains(sku, <<"-">>)
        parts == Split(sku, <<"-">>)
        parent == IF dash THEN parts[1] ELSE sku
    IN  << IF sku # <<>> THEN Lower(parent \o <<":">> \o sku) ELSE <<>>,
           Lower(product_name),
           Lower(sku),
           IF dash THEN Lower(parts[1]) ELSE <<>>,
           IF dash THEN Lower(parts[2]) ELSE <<>>,
           AlnumOnly(Lower(sku)) >>

\* candidates of a line in the order product field, full sku, composite
\* first-segment:sku, first dash segment, second dash segment, stripped sku
ProductFirstOrder(product_name, sku) ==
    LET dash == Contains(sku, <<"-">>)
        parts == Split(sku, <<"-">>)
    IN  << Lower(product_name),
           Lower(sku),
           IF dash THEN Lower(parts[1] \o <<":">> \o sku) ELSE <<>>,
           IF dash THEN Lower(parts[1]) ELSE <<>>,
           IF dash THEN Lower(parts[2]) ELSE <<>>,
           AlnumOnly(Lower(sku)) >>

\* the id of the earliest candidate that is a key of the index, NoId if none
EarliestId(cands) ==
    LET hits == {j \in DOMAIN cands : cands[j] # <<>> /\ cands[j] \in DOMAIN items_map}
    IN  IF hits = {} THEN NoId
        ELSE items_map[cands[CHOOSE j \in hits : \A h \in hits : j <= h]]

IndexedLines ==
    {i \in DOMAIN log : use_item_based_expense /\ ~log[i].skipped /\ items_map # EmptyMap}

\* C6 as stated: the id selected from the index is that of the earliest
\* candidate in the order composite, product field, full sku, parent,
\* child, stripped.
C6_ClaimedCandidateOrder ==
    \A i \in IndexedLines :
        EarliestId(ClaimedOrder(log[i].product, log[i].sku)) # NoId
        => log[i].item_id = EarliestId(ClaimedOrder(log[i].product, log[i].sku))

\* C6 amended: the id selected from the index is that of the earliest
\* candidate in the order product field, full sku, composite
\* first-segment:sku, first dash segment, second dash segment, stripped
\* sku; with no candidate in the index nothing is selected from it.
C6_ProductFirstCandidateOrder ==
    \A i \in IndexedLines :
        LET id == EarliestId(ProductFirstOrder(log[i].product, log[i].sku))
        IN  IF id # NoId
            THEN log[i].via = "index" /\ log[i].item_id = id
            ELSE log[i].via # "index"

\* a line for which two candidates are in the index with different ids
C6_Witness ==
    \E i \in IndexedLines :
        LET c == ProductFirstOrder(log[i].product, log[i].sku)
        IN  /\ log[i].via = "index"
            /\ \E j, h \in DOMAIN c :
                  /\ c[j] \in DOMAIN items_map /\ c[h] \in DOMAIN items_map
                  /\ c[j] # <<>> /\ c[h] # <<>>
                  /\ items_map[c[j]] # items_map[c[h]]

\* C7: a line whose amount is zero, negative or unparseable is skipped: it
\* is logged as skipped with no match attempted, no output line stems from
\* it and the unmatched list holds product names of positive lines only.
C7_NonPositiveLinesExcluded ==
    LET positive == {i \in DOMAIN log : IsValidItem(InputLines[i])}
    IN  /\ \A i \in (DOMAIN log) \ positive :
              log[i].skipped /\ log[i].attempts = <<>> /\ log[i].item_id = NoId
        /\ Len(qb_line_items) <= Cardinality(positive)
        /\ \A m \in Range(missing_items) : \E i \in positive : log[i].product = m

\* a zero-amount line has been skipped by the loop next to a positive line
\* that was processed
C7_Witness ==
    /\ Returned
    /\ \E i \in DOMAIN log :
          /\ ToFloat(InputLines[i].amount).ok
          /\ ToFloat(InputLines[i].amount).v = 0
          /\ log[i].skipped
    /\ \E i \in DOMAIN log : ~log[i].skipped

\* C8: in account mode every positive line has exactly one account-based
\* output line on the caller's account, and the catalog is never fetched.
C8_AccountModeEmitsAccountLines ==
    (Returned /\ ~use_item_based_expense)
    => /\ catalog_fetches = 0
       /\ items_map = EmptyMap
       /\ Cardinality({k \in DOMAIN qb_line_items :
                          /\ Get(qb_line_items[k], "DetailType", "") = AccountDetail
                          /\ Get(qb_line_items[k], "AccountRef", "") = AccountId})
            = Cardinality({i \in DOMAIN log : ~log[i].skipped})

\* C9: a bill without lines is never POSTed, and when the assembled bill
\* has no lines create_bill returns a failure.
C9_EmptyBillNeverSubmitted ==
    /\ \A k \in DOMAIN posts : posts[k].Line # <<>>
    /\ (Returned /\ qb_bill.Line = <<>>) => (~result.success /\ posts = <<>>)

\* create_bill returned on an assembled bill without lines after the loop
\* saw a positive line
C9_Witness ==
    /\ Returned
    /\ qb_bill.Line = <<>>
    /\ ~result.success
    /\ \E i \in DOMAIN log : ~log[i].skipped

\* C10: when the catalog fetch failed or returned nothing the loop still
\* runs over every line with an empty index; each positive line ends as a
\* fallback line on the default account when one is given, and no output
\* line is item-based.
C10_DegradedModeFallsBack ==
    (Returned /\ use_item_based_expense /\ catalog_fetches = 1 /\ items_map = EmptyMap)
    => /\ Len(log) = Len(InputLines)
       /\ \A k \in DOMAIN qb_line_items :
             Get(qb_line_items[k], "DetailType", "") # ItemDetail
       /\ default_expense_account_id # NoAccount
          => \A i \in DOMAIN log :
                ~log[i].skipped
                => FallbackLinesFor(default_expense_account_id, log[i].amount) # {}

\* ------------------------------------------------------------------------
\* The SKU rules (format_bill_data) and the extractor (parse_bill)
\* ------------------------------------------------------------------------

\* the tokens of the text that follows the first occurrence of a marker
TokensAfter(d, marker) ==
    Tokens(SubSeq(d, Find(d, marker, 1) + Len(marker), Len(d)))

\* the text between the first opening character and the next closing one,
\* without surrounding blanks; empty when no closing character follows
SegmentBetween(d, open, close) ==
    LET s == Find(d, open, 1) + 1
        e == Find(d, close, s)
    IN  IF e > s THEN Strip(SubSeq(d, s, e - 1)) ELSE <<>>

HasDigit(s) == \E i \in 1..Len(s) : IsDigit(s[i])

\* the number of the first rule that applies to a description d with the
\* product identifier n; rules 4 and 5 apply when both of their characters
\* occur in d
FirstRule(d, n) ==
    IF n # <<>> THEN 1
    ELSE IF Contains(d, SkuMarker) THEN 2
    ELSE IF Contains(d, CodigoMarker) \/ Contains(d, CodigoAccentMarker) THEN 3
    ELSE IF Contains(d, <<"[">>) /\ Contains(d, <<"]">>) THEN 4
    ELSE IF Contains(d, <<"(">>) /\ Contains(d, <<")">>) THEN 5
    ELSE 6

CodigoTokens(d) ==
    IF Contains(d, CodigoMarker) THEN TokensAfter(d, CodigoMarker)
    ELSE TokensAfter(d, CodigoAccentMarker)

\* rule 2 or 3 applies and no token follows the marker
TokenMissing(d, n) ==
    \/ FirstRule(d, n) = 2 /\ TokensAfter(d, SkuMarker) = <<>>
    \/ FirstRule(d, n) = 3 /\ CodigoTokens(d) = <<>>

GuardedParen(c) == IF HasDigit(c) \/ Len(c) < 10 THEN c ELSE <<>>

\* the full_sku the rule list gives, by the number of the rule
RuleSku(d, n, rule) ==
    CASE rule = 1 -> n
      [] rule = 2 -> TokensAfter(d, SkuMarker)[1]
      [] rule = 3 -> CodigoTokens(d)[1]
      [] rule = 4 -> SegmentBetween(d, <<"[">>, <<"]">>)
      [] rule = 5 -> GuardedParen(SegmentBetween(d, <<"(">>, <<")">>))
      [] OTHER    -> <<>>

\* format_bill_data has been applied to the table of the document
FormatApplied == entry = "df" /\ pc \in {"ready", "failed"}

RowDesc(i) == doc.conceptos[i].Descripcion

RowNoId(i) == doc.conceptos[i].NoIdentificacion

sXYZ9 == <<"X","Y","Z","9">>

ParseApplied == entry \in {"xml", "raw"} /\ pc \in {"parsed", "ready"}

ConceptDesc(i) == Get(doc.conceptos[i], "Descripcion", <<>>)

ConceptNoId(i) == Get(doc.conceptos[i], "NoIdentificacion", <<>>)

\* the part of a SKU before its first hyphen, the SKU itself without one
BeforeFirstHyphen(t) ==
    IF Find(t, <<"-">>, 1) = 0 THEN t ELSE SubSeq(t, 1, Find(t, <<"-">>, 1) - 1)

\* the three SKU fields of a line agree with the token T
SkuFieldsOf(line, T) ==
    /\ line.sku = T
    /\ line.parent_sku = BeforeFirstHyphen(T)
    /\ line.product = BeforeFirstHyphen(T) \o <<":">> \o T

\* C12: a line whose description holds "SKU:" followed by a token T, with
\* an empty product identifier, has full_sku T, parent_sku the part of T
\* before its first hyphen (T itself without one) and the match key
\* parent_sku:full_sku, T being the first whitespace-delimited token
C12_SkuTokenSplit ==
    ParseApplied =>
        \A i \in 1..Len(doc.conceptos) :
            ( /\ Contains(ConceptDesc(i), SkuMarker)
              /\ ConceptNoId(i) = <<>>
              /\ TokensAfter(ConceptDesc(i), SkuMarker) # <<>> )
            => SkuFieldsOf(bill_df[i], TokensAfter(ConceptDesc(i), SkuMarker)[1])

\* C13: a line whose full_sku is empty has the product identifier as its
\* match key when that is not empty and the raw description otherwise, so
\* the key is not empty when the description is not
C13_FallbackToIdentifierThenDescription ==
    ParseApplied =>
        \A i \in 1..Len(doc.conceptos) :
            bill_df[i].sku = <<>> =>
                /\ bill_df[i].product =
                       IF ConceptNoId(i) # <<>> THEN ConceptNoId(i) ELSE ConceptDesc(i)
                /\ ConceptDesc(i) # <<>> => bill_df[i].product # <<>>

\* C13 as the code has it: a line whose full_sku is empty has the product
\* identifier as its match key, empty or not, when the description holds
\* no "SKU:", and ":" when "SKU:" is followed by nothing; the description is
\* never the key
C13_FallbackToIdentifierOnly ==
    ParseApplied =>
        \A i \in 1..Len(doc.conceptos) :
            bill_df[i].sku = <<>> =>
                bill_df[i].product =
                    IF Contains(ConceptDesc(i), SkuMarker) THEN <<":">> ELSE ConceptNoId(i)

\* a line with a description and no identifier got an empty key next to a
\* line whose key is its identifier
C13_Witness ==
    /\ ParseApplied
    /\ \E i, j \in 1..Len(doc.conceptos) :
          /\ ConceptDesc(i) = sSample /\ ConceptNoId(i) = <<>>
          /\ bill_df[i].sku = <<>> /\ bill_df[i].product = <<>>
          /\ ConceptDesc(j) = sSample /\ ConceptNoId(j) = sN1
          /\ bill_df[j].sku = <<>> /\ bill_df[j].product = sN1

\* only the parenthesis rule applies to row i of the table
OnlyParenRule(i) == FirstRule(RowDesc(i), RowNoId(i)) = 5

ParenContent(i) == SegmentBetween(RowDesc(i), <<"(">>, <<")">>)

\* C14: when only the parenthesis rule applies, the text between the
\* parentheses (without surrounding blanks) is the full_sku if and only if
\* it holds a digit or is shorter than 10 characters; a text of 10 or more
\* characters without a digit leaves full_sku empty
C14_ParenthesisGuard ==
    (FormatApplied /\ pc = "ready") =>
        \A i \in 1..Len(doc.conceptos) :
            OnlyParenRule(i) =>
                /\ (HasDigit(ParenContent(i)) \/ Len(ParenContent(i)) < 10)
                       => bill_data.line_items[i].sku = ParenContent(i)
                /\ (~HasDigit(ParenContent(i)) /\ Len(ParenContent(i)) >= 10)
                       => bill_data.line_items[i].sku = <<>>

\* a text of exactly 10 letters was refused next to an accepted text of 11
\* characters with a digit
C14_Witness ==
    /\ FormatApplied
    /\ pc = "ready"
    /\ \E i, j \in 1..Len(doc.conceptos) :
          /\ OnlyParenRule(i) /\ RowDesc(i) = sParenTen
          /\ Len(ParenContent(i)) = 10 /\ bill_data.line_items[i].sku = <<>>
          /\ OnlyParenRule(j) /\ RowDesc(j) = sParenDigit
          /\ Len(ParenContent(j)) = 11 /\ bill_data.line_items[j].sku = ParenContent(j)

sA == <<"a">>

\* C15: the description "Cheap gadget (a)" with an empty product
\* identifier yields an empty full_sku
C15_CheapGadgetEmpty ==
    (FormatApplied /\ pc = "ready") =>
        \A i \in 1..Len(doc.conceptos) :
            (RowDesc(i) = sCheapGadget /\ RowNoId(i) = <<>>)
                => bill_data.line_items[i].sku = <<>>

\* C15 as the code has it: the description "Cheap gadget (a)" with an
\* empty product identifier yields the full_sku "a", the parenthesized text
\* being shorter than 10 characters
C15_CheapGadgetYieldsA ==
    (FormatApplied /\ pc = "ready") =>
        \A i \in 1..Len(doc.conceptos) :
            (RowDesc(i) = sCheapGadget /\ RowNoId(i) = <<>>)
                => bill_data.line_items[i].sku = sA

\* format_bill_data has handled a row "Cheap gadget (a)" without identifier
C15_Witness ==
    /\ FormatApplied
    /\ pc = "ready"
    /\ \E i \in 1..Len(doc.conceptos) :
          /\ RowDesc(i) = sCheapGadget /\ RowNoId(i) = <<>>
          /\ bill_data.line_items[i].sku = sA

\* ------------------------------------------------------------------------
\* The index builder (create_sku_mapping)
\* ------------------------------------------------------------------------

\* create_sku_mapping has returned the index of the catalog
Indexed == pc = "indexed"

HasColon(name) == Find(name, <<":">>, 1) # 0

\* P and C of a display name P:C, cut at the first colon
NameParent(name) == SubSeq(name, 1, Find(name, <<":">>, 1) - 1)

NameChild(name) == SubSeq(name, Find(name, <<":">>, 1) + 1, Len(name))

\* the dash-separated segments of a text
Segments(c) == Split(c, <<"-">>)

LastSegment(c) == Segments(c)[Len(Segments(c))]

IndexKeys == DOMAIN items_map

\* C16: the index of a catalog with the single entry P:C has the
\* lower-cased full name, lower-cased P, lower-cased C and the last
\* dash-separated segment of C among its keys, and every key maps to the
\* id of that entry; "24fauxbois:24fauxbois-sharbor" gives the keys
\* "24fauxbois:24fauxbois-sharbor", "24fauxbois", "24fauxbois-sharbor", "sharbor"
C16_SingleEntryKeys ==
    (Indexed /\ Len(server) = 1 /\ HasColon(server[1][1])) =>
        /\ {Lower(server[1][1]), Lower(NameParent(server[1][1])),
            Lower(NameChild(server[1][1])),
            Lower(LastSegment(NameChild(server[1][1])))} \subseteq IndexKeys
        /\ \A k \in IndexKeys : items_map[k] = server[1][2]
        /\ server[1][1] = s24Name
              => {s24Name, s24Parent, s24Child, sSharbor} \subseteq IndexKeys

\* the index of the one-entry catalog "24fauxbois:24fauxbois-sharbor"
C16_Witness ==
    /\ Indexed
    /\ server = << <<s24Name, "id2">> >>
    /\ sSharbor \in IndexKeys
    /\ items_map[sSharbor] = "id2"

\* entry e of the catalog has a display name P:C with a hyphenated C
HyphenatedChild(e) ==
    HasColon(server[e][1]) /\ Contains(NameChild(server[e][1]), <<"-">>)

\* the dash-separated segments of the child of entry e, lower-cased
ChildSegments(e) ==
    {Lower(Segments(NameChild(server[e][1]))[i]) :
        i \in 1..Len(Segments(NameChild(server[e][1])))}

\* the keys the code's comments name for one display name: the full name,
\* the parent and the child, the last and the first part of a hyphenated
\* child, and the forms of the child and of the name without special
\* characters
NamedKeys(name) ==
    {Lower(name), AlnumOnly(Lower(name))}
    \cup (IF HasColon(name)
          THEN {Lower(NameParent(name)), Lower(NameChild(name))}
               \cup (IF Contains(NameChild(name), <<"-">>)
                     THEN {Lower(LastSegment(NameChild(name))),
                           Lower(Segments(NameChild(name))[1]),
                           AlnumOnly(Lower(NameChild(name)))}
                     ELSE {})
          ELSE {})

\* C17: for every entry P:C with a hyphen in C, every dash-separated
\* segment of C, the middle ones of three or more included, is a key of
\* the index in lower case, and so is C without its non-alphanumeric
\* characters
C17_EverySegmentRegistered ==
    Indexed =>
        \A e \in 1..Len(server) :
            HyphenatedChild(e) =>
                /\ ChildSegments(e) \subseteq IndexKeys
                /\ AlnumOnly(Lower(NameChild(server[e][1]))) \in IndexKeys

\* C17 as the code has it: for every entry P:C with a hyphen in C, the
\* first and the last dash-separated segment of C are keys of the index in
\* lower case, and so is C without its non-alphanumeric characters; a
\* middle segment is a key only when some entry registers it as its name,
\* parent, child, first or last segment or stripped form
C17_FirstAndLastSegmentRegistered ==
    Indexed =>
        /\ \A e \in 1..Len(server) :
              HyphenatedChild(e) =>
                  /\ Lower(Segments(NameChild(server[e][1]))[1]) \in IndexKeys
                  /\ Lower(LastSegment(NameChild(server[e][1]))) \in IndexKeys
                  /\ AlnumOnly(Lower(NameChild(server[e][1]))) \in IndexKeys
        /\ IndexKeys = UNION {NamedKeys(server[e][1]) : e \in 1..Len(server)}

\* the index of a catalog holding only "P:a-B-c" has "a", "c" and "abc"
\* and lacks "b"
C17_Witness ==
    /\ Indexed
    /\ Len(server) = 1
    /\ server[1][1] = sThreeName
    /\ {<<"a">>, <<"c">>, <<"a","b","c">>} \subseteq IndexKeys
    /\ <<"b">> \notin IndexKeys

\* the entries of the catalog that register the key k
Writers(k) == {e \in 1..Len(server) : k \in NamedKeys(server[e][1])}

LastWriter(k) == CHOOSE e \in Writers(k) : \A f \in Writers(k) : f <= e

\* C18: every key of the index maps to the id of the last entry, in
\* catalog order, that registers it, whatever earlier entries registered
\* under the same key, and no entry's key is left out of the index
C18_LastWriterWins ==
    Indexed =>
        /\ \A e \in 1..Len(server) : Lower(server[e][1]) \in IndexKeys
        /\ \A k \in IndexKeys :
              /\ Writers(k) # {}
              /\ items_map[k] = server[LastWriter(k)][2]

\* two entries with different ids registered the same key and the index
\* holds the id of the second
C18_Witness ==
    /\ Indexed
    /\ Len(server) = 2
    /\ server[1][2] # server[2][2]
    /\ \E k \in IndexKeys :
          /\ Writers(k) = {1, 2}
          /\ items_map[k] = server[2][2]

\* ------------------------------------------------------------------------
\* The extractor (parse_bill) on whole documents
\* ------------------------------------------------------------------------

\* parse_bill has been called on the document
ParseCalled == entry \in {"xml", "raw"} /\ pc # "start"

\* the attribute of a concept element as text, with the default of an
\* absent attribute
AttrText(c, k, default) == Txt(IF k \in DOMAIN c THEN c[k] ELSE default)

\* the line item carries the five attributes of the concept element
CarriesAttributes(line, c) ==
    /\ line.full_description = (IF "Descripcion" \in DOMAIN c THEN c.Descripcion ELSE <<>>)
    /\ line.product_id = (IF "NoIdentificacion" \in DOMAIN c THEN c.NoIdentificacion ELSE <<>>)
    /\ line.Cantidad = AttrText(c, "Cantidad", DefaultCantidad)
    /\ line.ValorUnitario = AttrText(c, "ValorUnitario", DefaultImporte)
    /\ line.Importe = AttrText(c, "Importe", DefaultImporte)
    /\ line.quantity = line.Cantidad
    /\ line.rate = line.ValorUnitario
    /\ line.amount = line.Importe

\* C19: for a well-formed document whose concept collection has N concept
\* elements, parse_bill returns exactly N line items and the i-th line item
\* carries the attributes of the i-th concept element
C19_OneLinePerConceptInOrder ==
    (ParseCalled /\ doc.wellformed /\ doc.has_conceptos) =>
        /\ pc \in {"parsed", "ready"}
        /\ Len(bill_df) = Len(doc.conceptos)
        /\ \A i \in 1..Len(doc.conceptos) : CarriesAttributes(bill_df[i], doc.conceptos[i])

\* two concept elements with different descriptions were extracted in
\* document order, the second one without any attribute but a description
C19_Witness ==
    /\ ParseCalled
    /\ pc = "parsed"
    /\ doc.has_conceptos
    /\ Len(doc.conceptos) = 2
    /\ doc.conceptos[1] = RuleConcepto(sWidgetSku, <<>>)
    /\ doc.conceptos[2] = cBare
    /\ bill_df[1].full_description = sWidgetSku
    /\ bill_df[2].full_description = sSample
    /\ bill_df[2].Cantidad = Txt(DefaultCantidad)

\* C20: for a well-formed document without a concept collection,
\* parse_bill does not raise and returns the Folio of the root as the
\* invoice number together with no line item
C20_MissingConceptosIsNoError ==
    (ParseCalled /\ doc.wellformed /\ ~doc.has_conceptos) =>
        /\ pc \in {"parsed", "ready"}
        /\ invoice_number = (IF "Folio" \in DOMAIN doc.root THEN doc.root.Folio ELSE <<>>)
        /\ bill_df = <<>>

\* a document with a Folio and no concept collection has been parsed
C20_Witness ==
    /\ ParseCalled
    /\ pc = "parsed"
    /\ doc.wellformed
    /\ ~doc.has_conceptos
    /\ invoice_number = sFolio
    /\ bill_df = <<>>

\* ------------------------------------------------------------------------
\* Failures of the extractor in the pipeline
\* ------------------------------------------------------------------------

\* C21: when the document is not well-formed, parse_bill fails, the caller
\* stops at the failure, no line item comes out of the document, and no
\* bill is built from it, reconciled or submitted
C21_MalformedDocumentStopsPipeline ==
    (~doc.wellformed /\ entry \in {"xml", "raw"}) =>
        /\ pc \in {"start", "failed"}
        /\ bill_df = <<>>
        /\ bill_data = NoBill
        /\ catalog_fetches = 0
        /\ log = <<>>
        /\ qb_line_items = <<>>
        /\ qb_bill.Line = <<>>
        /\ posts = <<>>
        /\ result = NoResult

\* parse_bill has failed on a document that is not well-formed
C21_Witness ==
    /\ ~doc.wellformed
    /\ entry \in {"xml", "raw"}
    /\ pc = "failed"
    /\ bill_data = NoBill

\* ------------------------------------------------------------------------
\* The reconciler run twice, and the live lookup
\* ------------------------------------------------------------------------

\* the loop of the second call has handled every line
SecondRunComplete ==
    /\ pc = "loop"
    /\ bill_data.line_items # <<>>
    /\ idx > Len(bill_data.line_items)
    /\ Len(log) = 2 * Len(bill_data.line_items)

\* what the loop decided for one line
Decision(l) ==
    [skipped |-> l.skipped, amount |-> l.amount, quantity |-> l.quantity,
     matched |-> l.matched, item_id |-> l.item_id]

\* C22: a second run on the same lines, index, mode and default account
\* gives the same output lines and the same unmatched list as the first,
\* and decides every line as the first run did, whatever the first run
\* left in the lookup cache
C22_SecondRunSameResult ==
    SecondRunComplete =>
        /\ qb_line_items = qb_bill.Line
        /\ missing_items = result.missing_items
        /\ \A i \in 1..Len(bill_data.line_items) :
              Decision(log[i]) = Decision(log[Len(bill_data.line_items) + i])

\* the second run has repeated a line that the first run had looked up
\* with the service: the item found then is the item of the second run
C22_Witness ==
    /\ SecondRunComplete
    /\ queries > 0
    /\ \E i \in 1..Len(bill_data.line_items) :
          /\ ~log[i].skipped
          /\ log[i].item_id # NoId
          /\ log[i].via = "live"
          /\ log[Len(bill_data.line_items) + i].item_id = log[i].item_id

\* the loop of build_quickbooks_bill is running or has ended
InLoop == pc \in {"loop", "done"}

\* the field of a line cannot be converted to a number
Unparseable(item, field) == ~ToFloat(Get(item, field, Num(Scale))).ok

\* the loop has reported every line of the bill when create_bill returns
AllLinesSeen == pc = "done" => Len(log) = Len(bill_data.line_items)

LikeAnswered(c) ==
    /\ ~c.cached
    /\ c.net = "up"
    /\ Strip(c.sku) # <<>>
    /\ ServerLike(server, c.sku) # <<>>

\* the item name holds the SKU right after a colon or a dash
Delimited(item_name, sku) ==
    Contains(item_name, <<":">> \o sku) \/ Contains(item_name, <<"-">> \o sku)

\* the positions of the LIKE answer whose names hold the SKU delimited
DelimitedHits(sku) ==
    {i \in 1..Len(ServerLike(server, sku)) : Delimited(ServerLike(server, sku)[i][1], sku)}

FirstOf(S) == CHOOSE i \in S : \A j \in S : i <= j

\* C24: when the LIKE query for a SKU returns items, the item returned is
\* the first one whose name holds the SKU after a colon or a dash, also
\* when an item that merely contains the SKU comes earlier in the answer;
\* the first item of the answer is returned only when no name holds the
\* SKU delimited
C24_DelimitedMatchPreferred ==
    \A n \in 1..Len(log) :
        (pc = "lookup" /\ LikeAnswered(log[n])) =>
            log[n].result =
                ItemOf(ServerLike(server, log[n].sku)[
                    IF DelimitedHits(log[n].sku) # {}
                    THEN FirstOf(DelimitedHits(log[n].sku)) ELSE 1])

\* calls i and j had the same arguments, not both empty
SamePair(i, j) ==
    /\ log[i].name = log[j].name
    /\ log[i].sku = log[j].sku
    /\ (log[i].name # <<>> \/ log[i].sku # <<>>)

\* C25: once find_item_by_sku_or_name has returned for a pair (name, sku)
\* that is not both-empty, a later call with the same pair sends no query
\* and returns what the first call returned, an item or "not found",
\* whatever the service did during the first call
C25_RepeatedLookupIsMemoized ==
    pc = "lookup" =>
        \A i, j \in 1..Len(log) :
            (i < j /\ SamePair(i, j)) =>
                /\ log[j].sent = 0
                /\ log[j].result = log[i].result

\* a call whose query raised was repeated with the service up: no query
\* was sent and the answer was "not found" again
C25_Witness ==
    /\ pc = "lookup"
    /\ Len(log) = 2
    /\ SamePair(1, 2)
    /\ log[1].net = "raise"
    /\ log[1].sent > 0
    /\ log[2].net = "up"
    /\ log[2].sent = 0
    /\ log[2].result = NoItem

\* the arguments of a call as the cache sees them: the name without
\* quotes, and the SKU
CleanPair(c) == <<RemoveChar(RemoveChar(c.name, "'"), "\""), c.sku>>

\* C27: a call answered from the cache had an earlier call with the same
\* (cleaned name, sku) pair, whose result it returns: no result stored for
\* one pair is served to another
C27_CacheServesOwnPairOnly ==
    pc = "lookup" =>
        \A j \in 1..Len(log) :
            log[j].cached =>
                \E i \in 1..(j - 1) :
                    /\ CleanPair(log[i]) = CleanPair(log[j])
                    /\ log[i].result = log[j].result


\* ------------------------------------------------------------------------
\* Tokens and API requests
\* ------------------------------------------------------------------------

IsRequest(e) == e.e = "request"

IsRefresh(e) == e.e = "refresh"

RequestsOf(l) == SelectSeq(l.events, IsRequest)

ApiCalls == {i \in 1..Len(log) : pc = "auth" /\ log[i].op = "make_api_request"}

\* the events of a call end with a 401 answer, a successful refresh and the
\* retry
EndsWithRetry(ev) ==
    /\ Len(ev) >= 3
    /\ IsRequest(ev[Len(ev) - 2])
    /\ ~ev[Len(ev) - 2].response.raises
    /\ ev[Len(ev) - 2].response.status_code = 401
    /\ IsRefresh(ev[Len(ev) - 1])
    /\ ev[Len(ev) - 1].ok
    /\ IsRequest(ev[Len(ev)])

FailedResponse(response) == response.raises \/ response.status_code >= 400

\* C26: a call of make_api_request sends at most two API requests, the
\* original and at most one retry; the retry follows a 401 answer and a
\* successful token refresh; when the last answer is a status of 400 or more,
\* or a transport error, the call returns None.
C26_AtMostOneRetry ==
    \A i \in ApiCalls :
        /\ Len(RequestsOf(log[i])) <= 2
        /\ Len(RequestsOf(log[i])) = 2 => EndsWithRetry(log[i].events)
        /\ Len(RequestsOf(log[i])) >= 1 =>
              (FailedResponse(RequestsOf(log[i])[Len(RequestsOf(log[i]))].response)
                  => log[i].returned.none)

\* a call was retried after a refresh and the retry was answered with 500
C26_Witness ==
    \E i \in ApiCalls :
        /\ Len(RequestsOf(log[i])) = 2
        /\ RequestsOf(log[i])[1].response.status_code = 401
        /\ RequestsOf(log[i])[2].response.status_code = 500
        /\ log[i].returned.none

\* the calls made after a refresh has succeeded in this process
AfterRefresh == {i \in 1..Len(log) : pc = "auth" /\ log[i].before.access_token # NoToken}

\* the refresh token presented by the first refresh of a call
FirstRefreshOf(l) == SelectSeq(l.events, IsRefresh)[1].refresh_token

\* C29: once a refresh has succeeded in a process, get_valid_access_token
\* returns the refreshed access token without refreshing again, and a further
\* refresh presents the refresh token issued last.
C29_RefreshedTokensAreUsed ==
    \A i \in AfterRefresh :
        /\ log[i].op = "get_valid_access_token" =>
              /\ log[i].token = log[i].before.access_token
              /\ log[i].events = <<>>
        /\ SelectSeq(log[i].events, IsRefresh) # <<>> =>
              FirstRefreshOf(log[i]) = log[i].before.refresh_token


\* ------------------------------------------------------------------------
\* Display names in the index
\* ------------------------------------------------------------------------

\* the display names of the catalog are pairwise distinct ignoring case
DistinctDisplayNames ==
    \A e, f \in 1..Len(server) : e # f => Lower(server[e][1]) # Lower(server[f][1])

\* C28: when the display names of the catalog are pairwise distinct ignoring
\* case, the index maps the lower-cased display name of every entry to that
\* entry's own id, whatever other entries registered under the same string.
C28_DisplayNameKeepsOwnId ==
    (Indexed /\ DistinctDisplayNames) =>
        \A e \in 1..Len(server) :
            /\ Lower(server[e][1]) \in IndexKeys
            /\ items_map[Lower(server[e][1])] = server[e][2]


\* ------------------------------------------------------------------------
\* The line items of format_bill_data
\* ------------------------------------------------------------------------

\* format_bill_data has returned its line items
FormatReturned == entry \in {"xml", "df"} /\ pc = "ready"

\* the amount cell of a table row as a number, 0 when it has none or cannot
\* be converted
ImporteOf(row) == CellAmount(Get(row, "Importe", NoneVal))

\* the quantity cell of a table row as a number, 0 when it has none, cannot
\* be converted or is not positive
CantidadOf(row) == QuantityCell(row, "Cantidad")

\* C30: format_bill_data returns one line item per table row, in row order,
\* each with amount > 0 and quantity > 0; a row whose amount is zero,
\* negative or unparseable gets 1.0, and so does a quantity that is not
\* positive or unparseable.
C30_OneLinePerRowPositive ==
    FormatReturned =>
        /\ Len(bill_data.line_items) = Len(bill_df)
        /\ \A i \in 1..Len(bill_df) :
              /\ bill_data.line_items[i].product = Get(bill_df[i], "Descripcion", <<>>)
              /\ bill_data.line_items[i].amount.v > 0
              /\ bill_data.line_items[i].quantity.v > 0
              /\ bill_data.line_items[i].amount.v =
                    (IF ImporteOf(bill_df[i]) <= 0 THEN Scale ELSE ImporteOf(bill_df[i]))
              /\ bill_data.line_items[i].quantity.v =
                    (IF CantidadOf(bill_df[i]) <= 0 THEN Scale ELSE CantidadOf(bill_df[i]))

\* a two-row table whose first row has no usable amount and whose second
\* row has one, and a row with a quantity cell that gives no positive number
C30_Witness ==
    /\ FormatReturned
    /\ Len(bill_df) = 2
    /\ \E i \in 1..2 :
          /\ "Cantidad" \in DOMAIN bill_df[i]
          /\ CantidadOf(bill_df[i]) = 0
          /\ bill_data.line_items[i].quantity = Num(Scale)
    /\ ImporteOf(bill_df[1]) <= 0
    /\ ImporteOf(bill_df[2]) > 0
    /\ ImporteOf(bill_df[2]) # Scale
    /\ bill_data.line_items[1].amount = Num(Scale)
    /\ bill_data.line_items[2].amount = Num(ImporteOf(bill_df[2]))

====
